---- MODULE Spec2Model ----
(***************************************************************************)
(* FitTrack gym dashboard: the Dashboard, Members, Trainers, Schedule and   *)
(* Payments pages, each a React component holding what it fetched from the *)
(* JSON-server backend, a filtered (and on Payments sorted) view of it,    *)
(* and for Members and Trainers an add/edit modal whose saves and deletes  *)
(* are mirrored into the list when the backend answers.                    *)
(*                                                                         *)
(* JavaScript strings that hold data are tuples of one-character strings   *)
(* (<<"A","l">> is 'Al'); toast texts, sort keys and sort directions are   *)
(* TLA+ strings.                                                           *)
(* One step of the model is one event-handler run together with the       *)
(* render and the effects React runs before the next event.                *)
(***************************************************************************)
EXTENDS Integers, Sequences, FiniteSets, Bags, TLC

VARIABLES
    page,             \* which page component is mounted
    pathname,         \* location.pathname, as the list of its segments
    isPageLoading,    \* App.isPageLoading
    timers,           \* the timeouts of the page-transition effect not yet fired or cleared
    leftLoads,        \* the loads of pages no longer mounted whose promises have not all
                      \* settled (a bag: two visits of a page leave two loads)
    db,               \* backend: the members / trainers / classes / payments collections
    inflight,         \* requests issued whose promise has not settled yet
    issued,           \* number of create/update/delete requests issued
    members,          \* Members.members, Payments.members
    filteredMembers,  \* Members.filteredMembers
    trainers,         \* Trainers.trainers, Schedule.trainers
    filteredTrainers, \* Trainers.filteredTrainers
    payments,         \* Payments.payments
    filteredPayments, \* Payments.filteredPayments
    sortConfig,       \* Payments.sortConfig
    classes,          \* Schedule.classes
    selectedDay,      \* Schedule.selectedDay
    stats,            \* Dashboard.stats
    activeMembers,    \* Dashboard.activeMembers
    isLoading,        \* isLoading of the mounted page
    searchTerm,       \* searchTerm of the mounted page
    statusFilter,     \* statusFilter of the mounted page
    showModal,        \* showModal of the mounted page
    isEditing,        \* isEditing of the mounted page
    memberForm,       \* Members.memberForm
    trainerForm,      \* Trainers.trainerForm
    specialtyInput,   \* Trainers.specialtyInput
    certificationInput, \* Trainers.certificationInput
    notice,           \* text of the last toast shown ("" when none)
    errorToasts,      \* number of toast.error calls so far
    input,            \* what the user answered, clicked or submitted in the last step ("none": nothing)
    hist              \* whether every settled request succeeded / settled in backend
                      \* order / every created record got an id no record had before,
                      \* the largest id each collection has held, how many
                      \* requests had been issued when the modal was last opened,
                      \* the updates in flight whose record a delete removed,
                      \* whether the page's load has succeeded, and whether it did
                      \* so before any save was sent

appVars     == <<pathname, isPageLoading, timers, leftLoads>>
backendVars == <<db>>
memberVars  == <<members, filteredMembers, memberForm>>
trainerVars == <<trainers, filteredTrainers, trainerForm, specialtyInput,
                certificationInput>>
paymentVars == <<payments, filteredPayments, sortConfig>>
scheduleVars == <<classes, selectedDay>>
dashboardVars == <<stats, activeMembers>>
viewVars    == <<isLoading, searchTerm, statusFilter>>
modalVars   == <<showModal, isEditing>>

vars == <<page, appVars, backendVars, inflight, issued, memberVars, trainerVars, paymentVars,
          scheduleVars, dashboardVars, viewVars, modalVars, notice, errorToasts,
          input, hist>>

-----------------------------------------------------------------------------
(* Bounds of the model *)

\* create/update/delete requests one page issues in a run
MaxReq == 2

\* length of the strings the search predicates are tried on
MaxStrLen == 2

\* specialties a trainer form is given
MaxSpecialties == 2

\* error toasts after which no further load fails while the user moves about
MaxFailures == 1

\* loads of pages left that may be on their way when the user leaves a page
\* whose requests are still pending
MaxLeft == 1

\* largest capacity of the classes whose enrollment bar is tried
MaxCapacity == 8

-----------------------------------------------------------------------------
(* JavaScript strings *)

Upper == <<"A","B","C","D","E","F","G","H","I","J","K","L","M",
           "N","O","P","Q","R","S","T","U","V","W","X","Y","Z">>
Lower == <<"a","b","c","d","e","f","g","h","i","j","k","l","m",
           "n","o","p","q","r","s","t","u","v","w","x","y","z">>

Pos(seq, c) == CHOOSE i \in DOMAIN seq : seq[i] = c

\* one character of String.prototype.toLowerCase
LowerChar(c) ==
    IF \E i \in DOMAIN Upper : Upper[i] = c
    THEN Lower[Pos(Upper, c)]
    ELSE c

ToLowerCase(s) == [i \in DOMAIN s |-> LowerChar(s[i])]

\* String.prototype.includes: t occurs in s as a contiguous substring
Includes(s, t) ==
    \E i \in 0..(Len(s) - Len(t)) : SubSeq(s, i + 1, i + Len(t)) = t

\* the elements of a list
Range(seq) == {seq[i] : i \in DOMAIN seq}

Digits == <<"0","1","2","3","4","5","6","7","8","9">>

\* the UTF-16 code unit of a character (digits, letters and the punctuation
\* that occurs in the data)
CharCode(c) ==
    CASE \E i \in DOMAIN Digits : Digits[i] = c -> 47 + Pos(Digits, c)
      [] \E i \in DOMAIN Upper : Upper[i] = c -> 64 + Pos(Upper, c)
      [] \E i \in DOMAIN Lower : Lower[i] = c -> 96 + Pos(Lower, c)
      [] c = " " -> 32
      [] c = "-" -> 45
      [] c = "." -> 46
      [] c = "@" -> 64

\* a < b on two strings: the first differing code unit decides, a proper
\* prefix is smaller
RECURSIVE StrLess(_, _)
StrLess(a, b) ==
    IF b = <<>> THEN FALSE
    ELSE IF a = <<>> THEN TRUE
    ELSE IF Head(a) = Head(b) THEN StrLess(Tail(a), Tail(b))
    ELSE CharCode(Head(a)) < CharCode(Head(b))

\* Number.prototype.toString of a natural number
RECURSIVE NumToString(_)
NumToString(n) ==
    IF n < 10 THEN <<Digits[n + 1]>>
    ELSE NumToString(n \div 10) \o <<Digits[(n % 10) + 1]>>

-----------------------------------------------------------------------------
(* Records *)

\* the option values of the status selects and the statuses of the records
All      == <<"A","l","l">>
Active   == <<"A","c","t","i","v","e">>
Inactive == <<"I","n","a","c","t","i","v","e">>
Paid     == <<"P","a","i","d">>
Pending  == <<"P","e","n","d","i","n","g">>
Overdue  == <<"O","v","e","r","d","u","e">>

\* MemberFormData.id is optional: 0 stands for "no id" (backend ids start at 1)
NoId == 0

\* emptyMemberForm (the fields the page searches, filters and mirrors)
emptyMemberForm ==
    [id |-> NoId, name |-> <<>>, email |-> <<>>, phone |-> <<>>,
     membershipStatus |-> Active]

\* the options of the Members status <select>
MemberStatusOptions == {All, Active, Inactive}

\* what the user types into the Members search box
MemberSearchTerms == {<<>>, <<"a">>, <<"B">>}

\* what the user types into / selects in the member form, per input name
MemberFieldValues(field) ==
    CASE field = "name" -> {<<"B","o">>}
      [] field = "email" -> {<<"b","@","x">>}
      [] field = "phone" -> {<<"5","B">>}
      [] field = "membershipStatus" -> {Active, Inactive}

MemberFields == {"name", "email", "phone", "membershipStatus"}

\* the members collection of the backend when the page is opened
SeedMembers ==
    << [id |-> 1, name |-> <<"A","l">>, email |-> <<"a","@","x">>,
        phone |-> <<"5","A">>, membershipStatus |-> Active],
       [id |-> 2, name |-> <<"B","e">>, email |-> <<"c","@","x">>,
        phone |-> <<"7">>, membershipStatus |-> Inactive] >>

\* emptyTrainerForm (the fields the page searches, edits as lists and mirrors)
emptyTrainerForm ==
    [id |-> NoId, name |-> <<>>, email |-> <<>>, specialties |-> <<>>,
     certifications |-> <<>>]

\* what the user types into the Trainers search box
TrainerSearchTerms == {<<>>, <<"Y">>}

\* what the user types into the trainer form, per input name
TrainerFieldValues(field) ==
    CASE field = "name" -> {<<"B","o">>}
      [] field = "email" -> {<<"y","@","x">>}

TrainerFields == {"name", "email"}

\* what the user types into the specialty input
SpecialtyInputs == {<<" ">>, <<" ","y"," ">>}

\* the trainers collection of the backend when the page is opened
SeedTrainers ==
    << [id |-> 1, name |-> <<"A","l">>, email |-> <<"a","@","x">>,
        specialties |-> << <<"Y","o">> >>, certifications |-> << <<"N">> >>],
       [id |-> 2, name |-> <<"B","e">>, email |-> <<"c","@","x">>,
        specialties |-> <<>>, certifications |-> <<>>] >>

\* the options of the Payments status <select>
PaymentStatusOptions == {All, Paid, Pending, Overdue}

\* what the user types into the Payments search box
PaymentSearchTerms == {<<>>, <<"5">>, <<"C">>, <<"a","l">>}

\* the column headers that call requestSort
SortKeys == {"memberId", "amount", "date", "type", "method", "status"}

\* the columns that hold numbers; the others hold strings
NumericKeys == {"memberId", "amount"}

\* payments the backend may hold: two of one member, one of another, one
\* whose memberId no member has
SeedPaymentPool ==
    { [id |-> 1, memberId |-> 1, amount |-> 50, date |-> <<"0","3">>,
       type |-> <<"M">>, status |-> Paid, method |-> <<"C","a","r","d">>],
      [id |-> 2, memberId |-> 2, amount |-> 5, date |-> <<"0","1">>,
       type |-> <<"M">>, status |-> Pending, method |-> <<"c","a","s","h">>],
      [id |-> 3, memberId |-> 9, amount |-> 50, date |-> <<"0","2">>,
       type |-> <<"A">>, status |-> Paid, method |-> <<"C","a","r","d">>],
      [id |-> 4, memberId |-> 1, amount |-> 120, date |-> <<"0","1">>,
       type |-> <<"A">>, status |-> Overdue, method |-> <<"c","a","s","h">>] }

\* the payments collection of the backend when the page is opened: any three
\* of the pool in any order
SeedPayments ==
    {ps \in [1..3 -> SeedPaymentPool] : \A i, j \in 1..3 : i # j => ps[i] # ps[j]}

\* the names of the `days` table of the Schedule page
Monday    == <<"M","o","n","d","a","y">>
Tuesday   == <<"T","u","e","s","d","a","y">>
Wednesday == <<"W","e","d","n","e","s","d","a","y">>
Thursday  == <<"T","h","u","r","s","d","a","y">>
Friday    == <<"F","r","i","d","a","y">>
Saturday  == <<"S","a","t","u","r","d","a","y">>
Sunday    == <<"S","u","n","d","a","y">>

\* the `days` table, in the order of its buttons
days == <<Monday, Tuesday, Wednesday, Thursday, Friday, Saturday, Sunday>>

\* the fallback texts of the reference lookups
UnknownMember == <<"U","n","k","n","o","w","n"," ","M","e","m","b","e","r">>
UnknownEmail  == <<"U","n","k","n","o","w","n"," ","E","m","a","i","l">>
Unknown       == <<"U","n","k","n","o","w","n">>

\* classes the backend may hold: two on Monday, one of them with a trainer
\* id no trainer has, and one with no day at all
SeedClasses ==
    << [id |-> 1, name |-> <<"Y","o">>, trainer |-> 1,
        days |-> <<Monday, Wednesday>>,
        timeStart |-> <<"0","9",":","0","0">>, timeEnd |-> <<"1","0",":","3","0">>,
        capacity |-> 4, enrolled |-> 3],
       [id |-> 2, name |-> <<"H","I">>, trainer |-> 7,
        days |-> <<Monday>>,
        timeStart |-> <<"1","8",":","0","0">>, timeEnd |-> <<"1","9",":","0","0">>,
        capacity |-> 4, enrolled |-> 4],
       [id |-> 3, name |-> <<"S","p">>, trainer |-> 2,
        days |-> <<>>,
        timeStart |-> <<"0","6",":","3","0">>, timeEnd |-> <<"0","7",":","1","5">>,
        capacity |-> 4, enrolled |-> 1] >>

\* the classes collection of the backend when the Schedule page is opened
SeedClassLists == {<<>>, SeedClasses, <<SeedClasses[3]>>}

\* the initial value of Dashboard.stats
emptyStats ==
    [totalMembers |-> 0, activeMembers |-> 0, totalTrainers |-> 0,
     totalClasses |-> 0, recentPayments |-> 0]

\* Date.now() minus thirty days, as a date of the kind the payments carry
Cutoffs == {<<"0","0">>, <<"0","2">>}

-----------------------------------------------------------------------------
(* The JSON-server backend and the requests in flight *)

Max(S) == CHOOSE x \in S : \A y \in S : y <= x

\* id given to a created record: one more than the largest id of the collection
NextId(coll) ==
    IF coll = <<>> THEN 1 ELSE Max({coll[i].id : i \in DOMAIN coll}) + 1

\* the largest id each collection of d holds, 0 for an empty one
TopOf(d) == [c \in DOMAIN d |-> NextId(d[c]) - 1]

HasId(coll, id) == \E i \in DOMAIN coll : coll[i].id = id

\* a request as issued by a page: n numbers the requests, 0 is the page load
Request(n, kind, coll, id, body) ==
    [n |-> n, kind |-> kind, coll |-> coll, id |-> id, body |-> body,
     status |-> "sent", data |-> <<>>, after |-> {}]

\* the backend answers a request it can serve
BackendServes(r) ==
    \/ r.kind \in {"get", "post"}
    \/ r.kind \in {"put", "delete"} /\ HasId(db[r.coll], r.id)

\* the collection after the backend has applied request r
BackendApply(coll, r) ==
    CASE r.kind = "get" -> coll
      [] r.kind = "post" -> Append(coll, [r.body EXCEPT !.id = NextId(coll)])
      [] r.kind = "put" ->
           [i \in DOMAIN coll |->
              IF coll[i].id = r.id THEN [r.body EXCEPT !.id = r.id] ELSE coll[i]]
      [] r.kind = "delete" -> SelectSeq(coll, LAMBDA x : x.id # r.id)

\* the response body of request r
BackendData(coll, r) ==
    CASE r.kind = "get" -> coll
      [] r.kind = "post" -> <<[r.body EXCEPT !.id = NextId(coll)]>>
      [] r.kind = "put" -> <<[r.body EXCEPT !.id = r.id]>>
      [] r.kind = "delete" -> <<>>

\* the requests already answered whose answer has not reached the page yet
Answered == {q.n : q \in {x \in inflight : x.status # "sent"}}

\* the backend handles request r: applies it and answers 2xx; r.after keeps
\* which answers were on their way when r was answered
BackendHandle(r) ==
    /\ r.status = "sent"
    /\ BackendServes(r)
    /\ db' = [db EXCEPT ![r.coll] = BackendApply(db[r.coll], r)]
    /\ inflight' = (inflight \ {r}) \cup
          {[r EXCEPT !.status = "ok", !.data = BackendData(db[r.coll], r),
                     !.after = Answered]}
    /\ hist' = IF r.kind = "post"
               THEN [hist EXCEPT !.fresh = hist.fresh /\ NextId(db[r.coll]) > hist.top[r.coll],
                                 !.top[r.coll] = Max({hist.top[r.coll], NextId(db[r.coll])})]
               ELSE hist
    /\ input' = "none"
    /\ UNCHANGED <<page, appVars, scheduleVars, dashboardVars, issued, memberVars, trainerVars,
                   paymentVars, viewVars, modalVars, notice, errorToasts>>

\* the request fails: the backend answers 404 for an unknown id, or the
\* network drops the request before the backend sees it
BackendReject(r) ==
    /\ r.status = "sent"
    /\ inflight' = (inflight \ {r}) \cup
          {[r EXCEPT !.status = "fail", !.after = Answered]}
    /\ input' = "none"
    /\ UNCHANGED <<page, appVars, scheduleVars, dashboardVars, backendVars, issued, memberVars, trainerVars, paymentVars, viewVars,
                   modalVars, notice, errorToasts, hist>>

\* bookkeeping when the promise of request r settles: r settles out of the
\* backend's order when an answer given before r's is still on its way
Settled(r) ==
    [hist EXCEPT !.allOk = hist.allOk /\ r.status = "ok",
                 !.inOrder = hist.inOrder /\ r.after = {},
                 !.overtaken = @ \ {r.n}]

\* bookkeeping when the load r of Members or Trainers succeeds: whether it did
\* so before any save was sent
SettledLoad(r) == [Settled(r) EXCEPT !.loaded = TRUE, !.loadedFirst = (issued = 0)]

\* bookkeeping when the success of delete r is mirrored: the updates of the
\* same record still in flight have been overtaken by the delete
SettledDelete(r) ==
    [Settled(r) EXCEPT !.overtaken =
        @ \cup {q.n : q \in {x \in inflight : x.kind = "put" /\ x.id = r.id}}]

\* the requests still in flight once the promise of r has settled
Remaining(r) == {[q EXCEPT !.after = q.after \ {r.n}] : q \in inflight \ {r}}

-----------------------------------------------------------------------------
(* Members page *)

\* the search predicate of the Members filter effect (term already lowercased)
MemberMatches(member, term) ==
    \/ Includes(ToLowerCase(member.name), term)
    \/ Includes(ToLowerCase(member.email), term)
    \/ Includes(member.phone, term)

\* a filter effect whose search step starts again from the whole list
MembersFilter_SearchFromAll(ms, status, search) ==
    LET byStatus == IF status # All
                    THEN SelectSeq(ms, LAMBDA m : m.membershipStatus = status)
                    ELSE ms
    IN  IF search # <<>>
        THEN SelectSeq(ms, LAMBDA m : MemberMatches(m, ToLowerCase(search)))
        ELSE byStatus

\* the Members filter effect: the value it gives filteredMembers
MembersFilter(ms, status, search) ==
    LET byStatus == IF status # All
                    THEN SelectSeq(ms, LAMBDA m : m.membershipStatus = status)
                    ELSE ms
    IN  IF search # <<>>
        THEN SelectSeq(byStatus, LAMBDA m : MemberMatches(m, ToLowerCase(search)))
        ELSE byStatus

\* an update that writes the form as it is when the answer arrives
MembersUpdated_CurrentForm(prev, form) ==
    [i \in DOMAIN prev |-> IF prev[i].id = memberForm.id THEN memberForm ELSE prev[i]]

\* an update that puts the form into the list when no member has its id
MembersUpdated_Upserts(prev, form) ==
    IF \E i \in DOMAIN prev : prev[i].id = form.id
    THEN [i \in DOMAIN prev |-> IF prev[i].id = form.id THEN form ELSE prev[i]]
    ELSE Append(prev, form)

\* setMembers(prev => prev.map(member => member.id === memberForm.id ? memberForm : member))
MembersUpdated(prev, form) ==
    [i \in DOMAIN prev |-> IF prev[i].id = form.id THEN form ELSE prev[i]]

\* a create that puts the new record first
MembersCreated_Prepends(prev, data) == <<data>> \o prev

\* setMembers(prev => [...prev, response.data])
MembersCreated(prev, data) == Append(prev, data)

\* a delete computed from the list as it was loaded: it forgets the records
\* created since
MembersDeleted_KeepsLoaded(prev, id) ==
    SelectSeq(prev, LAMBDA m : m.id # id /\ m.id <= Len(SeedMembers))

\* a delete whose filter keeps the wrong side
MembersDeleted_Inverted(prev, id) == SelectSeq(prev, LAMBDA m : m.id = id)

\* setMembers(prev => prev.filter(member => member.id !== id))
MembersDeleted(prev, id) == SelectSeq(prev, LAMBDA m : m.id # id)

\* the rows of the members table that carry edit and delete buttons
MemberRows ==
    IF isLoading THEN {} ELSE {filteredMembers[i] : i \in DOMAIN filteredMembers}

\* onChange of the search box: setSearchTerm, then the filter effect
Members_setSearchTerm(term) ==
    /\ page = "members"
    /\ searchTerm' = term
    /\ filteredMembers' = MembersFilter(members, statusFilter, term)
    /\ input' = "none"
    /\ UNCHANGED <<page, appVars, scheduleVars, dashboardVars, backendVars, inflight, issued, members, memberForm,
                   trainerVars, paymentVars, isLoading, statusFilter, modalVars,
                   notice, errorToasts, hist>>

\* onChange of the status select: setStatusFilter, then the filter effect
Members_setStatusFilter(status) ==
    /\ page = "members"
    /\ statusFilter' = status
    /\ filteredMembers' = MembersFilter(members, status, searchTerm)
    /\ input' = "none"
    /\ UNCHANGED <<page, appVars, scheduleVars, dashboardVars, backendVars, inflight, issued, members, memberForm,
                   trainerVars, paymentVars, isLoading, searchTerm, modalVars,
                   notice, errorToasts, hist>>

\* an openAddModal that leaves the editing mode as it is
Members_openAddModal_KeepsMode ==
    /\ page = "members"
    /\ memberForm' = emptyMemberForm
    /\ showModal' = TRUE
    /\ hist' = [hist EXCEPT !.openedAt = issued]
    /\ input' = "none"
    /\ UNCHANGED <<page, appVars, scheduleVars, dashboardVars, backendVars, inflight, issued, members, filteredMembers,
                   trainerVars, paymentVars, viewVars, isEditing, notice, errorToasts>>

Members_openAddModal ==
    /\ page = "members"
    /\ memberForm' = emptyMemberForm
    /\ isEditing' = FALSE
    /\ showModal' = TRUE
    /\ hist' = [hist EXCEPT !.openedAt = issued]
    /\ input' = "none"
    /\ UNCHANGED <<page, appVars, scheduleVars, dashboardVars, backendVars, inflight, issued, members, filteredMembers,
                   trainerVars, paymentVars, viewVars, notice, errorToasts>>

Members_openEditModal(member) ==
    /\ page = "members"
    /\ member \in MemberRows
    /\ memberForm' = member
    /\ isEditing' = TRUE
    /\ showModal' = TRUE
    /\ hist' = [hist EXCEPT !.openedAt = issued]
    /\ input' = "none"
    /\ UNCHANGED <<page, appVars, scheduleVars, dashboardVars, backendVars, inflight, issued, members, filteredMembers,
                   trainerVars, paymentVars, viewVars, notice, errorToasts>>

Members_closeModal ==
    /\ page = "members"
    /\ showModal
    /\ showModal' = FALSE
    /\ memberForm' = emptyMemberForm
    /\ input' = "none"
    /\ UNCHANGED <<page, appVars, scheduleVars, dashboardVars, backendVars, inflight, issued, members, filteredMembers,
                   trainerVars, paymentVars, viewVars, isEditing, notice, errorToasts, hist>>

\* a handleInputChange that writes into the record opened for editing
Members_handleInputChange_InPlace(name, value) ==
    /\ page = "members"
    /\ showModal
    /\ memberForm' = [memberForm EXCEPT ![name] = value]
    /\ members' = [i \in DOMAIN members |->
                     IF isEditing /\ members[i].id = memberForm.id
                     THEN memberForm' ELSE members[i]]
    /\ input' = "none"
    /\ UNCHANGED <<page, appVars, scheduleVars, dashboardVars, backendVars, inflight, issued, filteredMembers,
                   trainerVars, paymentVars, viewVars, modalVars, notice, errorToasts, hist>>

Members_handleInputChange(name, value) ==
    /\ page = "members"
    /\ showModal
    /\ memberForm' = [memberForm EXCEPT ![name] = value]
    /\ input' = "none"
    /\ UNCHANGED <<page, appVars, scheduleVars, dashboardVars, backendVars, inflight, issued, members, filteredMembers,
                   trainerVars, paymentVars, viewVars, modalVars, notice, errorToasts, hist>>

\* a handleSubmit that refuses a form whose name another member already has
Members_handleSubmit_UniqueName ==
    /\ page = "members"
    /\ showModal
    /\ issued < MaxReq
    /\ ~\E i \in DOMAIN members :
          members[i].name = memberForm.name /\ members[i].id # memberForm.id
    /\ issued' = issued + 1
    /\ inflight' = inflight \cup
          {IF isEditing
           THEN Request(issued + 1, "put", "members", memberForm.id, memberForm)
           ELSE Request(issued + 1, "post", "members", NoId, memberForm)}
    /\ input' = "submit"
    /\ UNCHANGED <<page, appVars, scheduleVars, dashboardVars, backendVars, memberVars, trainerVars, paymentVars, viewVars,
                   modalVars, notice, errorToasts, hist>>

\* handleSubmit up to its await: the request carries the form of this render
\* (the browser's check of the inputs marked required is not part of the handler)
Members_handleSubmit ==
    /\ page = "members"
    /\ showModal
    /\ issued < MaxReq
    /\ issued' = issued + 1
    /\ inflight' = inflight \cup
          {IF isEditing
           THEN Request(issued + 1, "put", "members", memberForm.id, memberForm)
           ELSE Request(issued + 1, "post", "members", NoId, memberForm)}
    /\ input' = "submit"
    /\ UNCHANGED <<page, appVars, scheduleVars, dashboardVars, backendVars, memberVars, trainerVars, paymentVars, viewVars,
                   modalVars, notice, errorToasts, hist>>

\* handleSubmit after its await resolved: mirror, closeModal, filter effect
Members_handleSubmit_resolved(r) ==
    /\ page = "members"
    /\ r.kind \in {"put", "post"} /\ r.status = "ok"
    /\ inflight' = Remaining(r)
    /\ members' = IF r.kind = "put"
                  THEN MembersUpdated(members, r.body)
                  ELSE MembersCreated(members, r.data[1])
    /\ notice' = IF r.kind = "put" THEN "Member updated successfully"
                                   ELSE "Member added successfully"
    /\ errorToasts' = errorToasts
    /\ showModal' = FALSE
    /\ memberForm' = emptyMemberForm
    /\ filteredMembers' = MembersFilter(members', statusFilter, searchTerm)
    /\ hist' = Settled(r)
    /\ input' = "none"
    /\ UNCHANGED <<page, appVars, scheduleVars, dashboardVars, backendVars, issued, trainerVars, paymentVars, viewVars,
                   isEditing>>

\* a catch block that gives up the form: it closes the modal
Members_handleSubmit_rejected_Closes(r) ==
    /\ page = "members"
    /\ r.kind \in {"put", "post"} /\ r.status = "fail"
    /\ inflight' = Remaining(r)
    /\ notice' = IF r.kind = "put" THEN "Failed to update member"
                                   ELSE "Failed to add member"
    /\ errorToasts' = errorToasts + 1
    /\ showModal' = FALSE
    /\ memberForm' = emptyMemberForm
    /\ hist' = Settled(r)
    /\ input' = "none"
    /\ UNCHANGED <<page, appVars, scheduleVars, dashboardVars, backendVars, issued, members,
                   filteredMembers, trainerVars, paymentVars, viewVars, isEditing>>

\* handleSubmit after its await rejected: the catch block
Members_handleSubmit_rejected(r) ==
    /\ page = "members"
    /\ r.kind \in {"put", "post"} /\ r.status = "fail"
    /\ inflight' = Remaining(r)
    /\ notice' = IF r.kind = "put" THEN "Failed to update member"
                                   ELSE "Failed to add member"
    /\ errorToasts' = errorToasts + 1
    /\ hist' = Settled(r)
    /\ input' = "none"
    /\ UNCHANGED <<page, appVars, scheduleVars, dashboardVars, backendVars, issued, memberVars, trainerVars, paymentVars,
                   viewVars, modalVars>>

\* handleDelete up to its await; confirmed is the answer to window.confirm
Members_handleDelete(id, confirmed) ==
    /\ page = "members"
    /\ \E m \in MemberRows : m.id = id
    /\ confirmed => issued < MaxReq
    /\ issued' = IF confirmed THEN issued + 1 ELSE issued
    /\ inflight' = IF confirmed
                   THEN inflight \cup
                        {Request(issued + 1, "delete", "members", id, emptyMemberForm)}
                   ELSE inflight
    /\ input' = IF confirmed THEN "yes" ELSE "no"
    /\ UNCHANGED <<page, appVars, scheduleVars, dashboardVars, backendVars, memberVars, trainerVars, paymentVars, viewVars,
                   modalVars, notice, errorToasts, hist>>

Members_handleDelete_resolved(r) ==
    /\ page = "members"
    /\ r.kind = "delete" /\ r.status = "ok"
    /\ inflight' = Remaining(r)
    /\ members' = MembersDeleted(members, r.id)
    /\ notice' = "Member deleted successfully"
    /\ errorToasts' = errorToasts
    /\ filteredMembers' = MembersFilter(members', statusFilter, searchTerm)
    /\ hist' = SettledDelete(r)
    /\ input' = "none"
    /\ UNCHANGED <<page, appVars, scheduleVars, dashboardVars, backendVars, issued, memberForm, trainerVars, paymentVars,
                   viewVars, modalVars>>

Members_handleDelete_rejected(r) ==
    /\ page = "members"
    /\ r.kind = "delete" /\ r.status = "fail"
    /\ inflight' = Remaining(r)
    /\ notice' = "Failed to delete member"
    /\ errorToasts' = errorToasts + 1
    /\ hist' = Settled(r)
    /\ input' = "none"
    /\ UNCHANGED <<page, appVars, scheduleVars, dashboardVars, backendVars, issued, memberVars, trainerVars, paymentVars,
                   viewVars, modalVars>>

\* a fetchMembers that keeps what the list already holds
Members_fetchMembers_resolved_Merges(r) ==
    /\ page = "members"
    /\ r.kind = "get" /\ r.status = "ok"
    /\ inflight' = Remaining(r)
    /\ members' = members \o r.data
    /\ filteredMembers' = MembersFilter(members', statusFilter, searchTerm)
    /\ isLoading' = FALSE
    /\ hist' = SettledLoad(r)
    /\ input' = "none"
    /\ UNCHANGED <<page, appVars, scheduleVars, dashboardVars, backendVars, issued, memberForm, trainerVars, paymentVars,
                   searchTerm, statusFilter, modalVars, notice, errorToasts>>

\* fetchMembers after its await resolved, then the filter effect
Members_fetchMembers_resolved(r) ==
    /\ page = "members"
    /\ r.kind = "get" /\ r.status = "ok"
    /\ inflight' = Remaining(r)
    /\ members' = r.data
    /\ filteredMembers' = MembersFilter(r.data, statusFilter, searchTerm)
    /\ isLoading' = FALSE
    /\ hist' = SettledLoad(r)
    /\ input' = "none"
    /\ UNCHANGED <<page, appVars, scheduleVars, dashboardVars, backendVars, issued, memberForm, trainerVars, paymentVars,
                   searchTerm, statusFilter, modalVars, notice, errorToasts>>

\* a fetchMembers that calls itself again from its catch block
Members_fetchMembers_rejected_Retries(r) ==
    /\ page = "members"
    /\ r.kind = "get" /\ r.status = "fail"
    /\ inflight' = Remaining(r) \cup {Request(0, "get", "members", NoId, emptyMemberForm)}
    /\ notice' = "Failed to load members"
    /\ errorToasts' = errorToasts + 1
    /\ hist' = Settled(r)
    /\ input' = "none"
    /\ UNCHANGED <<page, appVars, scheduleVars, dashboardVars, backendVars, issued, memberVars,
                   trainerVars, paymentVars, viewVars, modalVars>>

\* a fetchMembers without its finally block
Members_fetchMembers_rejected_NoFinally(r) ==
    /\ page = "members"
    /\ r.kind = "get" /\ r.status = "fail"
    /\ inflight' = Remaining(r)
    /\ notice' = "Failed to load members"
    /\ errorToasts' = errorToasts + 1
    /\ hist' = Settled(r)
    /\ input' = "none"
    /\ UNCHANGED <<page, appVars, scheduleVars, dashboardVars, backendVars, issued, memberVars,
                   trainerVars, paymentVars, viewVars, modalVars>>

Members_fetchMembers_rejected(r) ==
    /\ page = "members"
    /\ r.kind = "get" /\ r.status = "fail"
    /\ inflight' = Remaining(r)
    /\ notice' = "Failed to load members"
    /\ errorToasts' = errorToasts + 1
    /\ isLoading' = FALSE
    /\ hist' = Settled(r)
    /\ input' = "none"
    /\ UNCHANGED <<page, appVars, scheduleVars, dashboardVars, backendVars, issued, memberVars, trainerVars, paymentVars,
                   searchTerm, statusFilter, modalVars>>

\* the search box and the status select
MembersView ==
    \/ \E t \in MemberSearchTerms : Members_setSearchTerm(t)
    \/ \E st \in MemberStatusOptions : Members_setStatusFilter(st)

\* opening and closing the add/edit modal
MembersModal ==
    \/ Members_openAddModal
    \/ \E m \in MemberRows : Members_openEditModal(m)
    \/ Members_closeModal

\* typing into the inputs `fields` of the member form
MembersTyping(fields) ==
    \E f \in fields : \E v \in MemberFieldValues(f) : Members_handleInputChange(f, v)

\* the promise awaited by fetchMembers settles
MembersFetchSettles ==
    \E r \in inflight :
        Members_fetchMembers_resolved(r) \/ Members_fetchMembers_rejected(r)

\* the promise awaited by handleSubmit settles
MembersSubmitSettles ==
    \E r \in inflight :
        Members_handleSubmit_resolved(r) \/ Members_handleSubmit_rejected(r)

\* the promise awaited by handleDelete settles
MembersDeleteSettles ==
    \E r \in inflight :
        Members_handleDelete_resolved(r) \/ Members_handleDelete_rejected(r)

-----------------------------------------------------------------------------
(* Trainers page *)

IsSpace(c) == c = " "

\* String.prototype.trim
RECURSIVE Trim(_)
Trim(s) ==
    IF s = <<>> THEN s
    ELSE IF IsSpace(Head(s)) THEN Trim(Tail(s))
    ELSE IF IsSpace(s[Len(s)]) THEN Trim(SubSeq(s, 1, Len(s) - 1))
    ELSE s

\* a search predicate that compares the specialties as stored
TrainerMatches_SpecialtyAsStored(trainer, term) ==
    \/ Includes(ToLowerCase(trainer.name), term)
    \/ Includes(ToLowerCase(trainer.email), term)
    \/ \E i \in DOMAIN trainer.specialties : Includes(trainer.specialties[i], term)

\* the search predicate of the Trainers filter effect (term already lowercased)
TrainerMatches(trainer, term) ==
    \/ Includes(ToLowerCase(trainer.name), term)
    \/ Includes(ToLowerCase(trainer.email), term)
    \/ \E i \in DOMAIN trainer.specialties :
          Includes(ToLowerCase(trainer.specialties[i]), term)

\* the Trainers filter effect: the value it gives filteredTrainers
TrainersFilter(ts, search) ==
    IF search # <<>>
    THEN SelectSeq(ts, LAMBDA t : TrainerMatches(t, ToLowerCase(search)))
    ELSE ts

\* setTrainers(prev => prev.map(trainer => trainer.id === trainerForm.id ? trainerForm : trainer))
TrainersUpdated(prev, form) ==
    [i \in DOMAIN prev |-> IF prev[i].id = form.id THEN form ELSE prev[i]]

\* setTrainers(prev => [...prev, response.data])
TrainersCreated(prev, data) == Append(prev, data)

\* setTrainers(prev => prev.filter(trainer => trainer.id !== id))
TrainersDeleted(prev, id) == SelectSeq(prev, LAMBDA t : t.id # id)

\* prev.specialties.filter((_, i) => i !== index), index counted from 0
WithoutIndex(list, index) ==
    [i \in 1..(Len(list) - (IF index + 1 \in DOMAIN list THEN 1 ELSE 0)) |->
        IF i <= index THEN list[i] ELSE list[i + 1]]

\* the trainer cards, each with its edit and delete buttons
TrainerRows ==
    IF isLoading THEN {} ELSE {filteredTrainers[i] : i \in DOMAIN filteredTrainers}

\* onChange of the search box: setSearchTerm, then the filter effect
Trainers_setSearchTerm(term) ==
    /\ page = "trainers"
    /\ searchTerm' = term
    /\ filteredTrainers' = TrainersFilter(trainers, term)
    /\ input' = "none"
    /\ UNCHANGED <<page, appVars, scheduleVars, dashboardVars, backendVars, inflight, issued, memberVars, trainers,
                   trainerForm, specialtyInput, certificationInput, paymentVars, isLoading, statusFilter,
                   modalVars, notice, errorToasts, hist>>

Trainers_openAddModal ==
    /\ page = "trainers"
    /\ trainerForm' = emptyTrainerForm
    /\ isEditing' = FALSE
    /\ showModal' = TRUE
    /\ hist' = [hist EXCEPT !.openedAt = issued]
    /\ input' = "none"
    /\ UNCHANGED <<page, appVars, scheduleVars, dashboardVars, backendVars, inflight, issued, memberVars, trainers,
                   filteredTrainers, specialtyInput, certificationInput, paymentVars, viewVars, notice, errorToasts>>

Trainers_openEditModal(trainer) ==
    /\ page = "trainers"
    /\ trainer \in TrainerRows
    /\ trainerForm' = trainer
    /\ isEditing' = TRUE
    /\ showModal' = TRUE
    /\ hist' = [hist EXCEPT !.openedAt = issued]
    /\ input' = "none"
    /\ UNCHANGED <<page, appVars, scheduleVars, dashboardVars, backendVars, inflight, issued, memberVars, trainers,
                   filteredTrainers, specialtyInput, certificationInput, paymentVars, viewVars, notice, errorToasts>>

Trainers_closeModal ==
    /\ page = "trainers"
    /\ showModal
    /\ showModal' = FALSE
    /\ trainerForm' = emptyTrainerForm
    /\ specialtyInput' = <<>>
    /\ certificationInput' = <<>>
    /\ input' = "none"
    /\ UNCHANGED <<page, appVars, scheduleVars, dashboardVars, backendVars, inflight, issued, memberVars, trainers,
                   filteredTrainers, paymentVars, viewVars, isEditing, notice, errorToasts, hist>>

Trainers_handleInputChange(name, value) ==
    /\ page = "trainers"
    /\ showModal
    /\ trainerForm' = [trainerForm EXCEPT ![name] = value]
    /\ input' = "none"
    /\ UNCHANGED <<page, appVars, scheduleVars, dashboardVars, backendVars, inflight, issued, memberVars, trainers,
                   filteredTrainers, specialtyInput, certificationInput, paymentVars, viewVars, modalVars,
                   notice, errorToasts, hist>>

\* onChange of the specialty input
Trainers_setSpecialtyInput(value) ==
    /\ page = "trainers"
    /\ showModal
    /\ specialtyInput' = value
    /\ input' = "none"
    /\ UNCHANGED <<page, appVars, scheduleVars, dashboardVars, backendVars, inflight, issued, memberVars, trainers, certificationInput,
                   filteredTrainers, trainerForm, paymentVars, viewVars, modalVars,
                   notice, errorToasts, hist>>

\* an addSpecialty that appends the input as typed
Trainers_addSpecialty_Untrimmed ==
    /\ page = "trainers"
    /\ showModal
    /\ IF Trim(specialtyInput) # <<>>
       THEN /\ trainerForm' = [trainerForm EXCEPT
                  !.specialties = Append(@, specialtyInput)]
            /\ specialtyInput' = <<>>
       ELSE UNCHANGED <<trainerForm, specialtyInput>>
    /\ input' = "none"
    /\ UNCHANGED <<page, appVars, scheduleVars, dashboardVars, backendVars, inflight, issued, memberVars, trainers, certificationInput,
                   filteredTrainers, paymentVars, viewVars, modalVars, notice, errorToasts, hist>>

Trainers_addSpecialty ==
    /\ page = "trainers"
    /\ showModal
    /\ IF Trim(specialtyInput) # <<>>
       THEN /\ trainerForm' = [trainerForm EXCEPT
                  !.specialties = Append(@, Trim(specialtyInput))]
            /\ specialtyInput' = <<>>
       ELSE UNCHANGED <<trainerForm, specialtyInput>>
    /\ input' = "none"
    /\ UNCHANGED <<page, appVars, scheduleVars, dashboardVars, backendVars, inflight, issued, memberVars, trainers, certificationInput,
                   filteredTrainers, paymentVars, viewVars, modalVars, notice, errorToasts, hist>>

Trainers_removeSpecialty(index) ==
    /\ page = "trainers"
    /\ showModal
    /\ index + 1 \in DOMAIN trainerForm.specialties
    /\ trainerForm' = [trainerForm EXCEPT !.specialties = WithoutIndex(@, index)]
    /\ input' = "none"
    /\ UNCHANGED <<page, appVars, scheduleVars, dashboardVars, backendVars, inflight, issued, memberVars, trainers,
                   filteredTrainers, specialtyInput, certificationInput, paymentVars, viewVars, modalVars,
                   notice, errorToasts, hist>>

\* onChange of the certification input
Trainers_setCertificationInput(value) ==
    /\ page = "trainers"
    /\ showModal
    /\ certificationInput' = value
    /\ input' = "none"
    /\ UNCHANGED <<page, appVars, scheduleVars, dashboardVars, backendVars, inflight, issued, memberVars, trainers,
                   filteredTrainers, trainerForm, specialtyInput, paymentVars, viewVars,
                   modalVars, notice, errorToasts, hist>>

Trainers_addCertification ==
    /\ page = "trainers"
    /\ showModal
    /\ IF Trim(certificationInput) # <<>>
       THEN /\ trainerForm' = [trainerForm EXCEPT
                  !.certifications = Append(@, Trim(certificationInput))]
            /\ certificationInput' = <<>>
       ELSE UNCHANGED <<trainerForm, certificationInput>>
    /\ input' = "none"
    /\ UNCHANGED <<page, appVars, scheduleVars, dashboardVars, backendVars, inflight, issued, memberVars, trainers,
                   filteredTrainers, specialtyInput, paymentVars, viewVars, modalVars,
                   notice, errorToasts, hist>>

Trainers_removeCertification(index) ==
    /\ page = "trainers"
    /\ showModal
    /\ index + 1 \in DOMAIN trainerForm.certifications
    /\ trainerForm' = [trainerForm EXCEPT !.certifications = WithoutIndex(@, index)]
    /\ input' = "none"
    /\ UNCHANGED <<page, appVars, scheduleVars, dashboardVars, backendVars, inflight, issued, memberVars, trainers,
                   filteredTrainers, specialtyInput, certificationInput, paymentVars,
                   viewVars, modalVars, notice, errorToasts, hist>>

\* handleSubmit up to its await: the request carries the form of this render
Trainers_handleSubmit ==
    /\ page = "trainers"
    /\ showModal
    /\ issued < MaxReq
    /\ issued' = issued + 1
    /\ inflight' = inflight \cup
          {IF isEditing
           THEN Request(issued + 1, "put", "trainers", trainerForm.id, trainerForm)
           ELSE Request(issued + 1, "post", "trainers", NoId, trainerForm)}
    /\ input' = "submit"
    /\ UNCHANGED <<page, appVars, scheduleVars, dashboardVars, backendVars, memberVars, trainerVars, paymentVars, viewVars,
                   modalVars, notice, errorToasts, hist>>

\* handleSubmit after its await resolved: mirror, closeModal, filter effect
Trainers_handleSubmit_resolved(r) ==
    /\ page = "trainers"
    /\ r.kind \in {"put", "post"} /\ r.status = "ok"
    /\ inflight' = Remaining(r)
    /\ trainers' = IF r.kind = "put"
                   THEN TrainersUpdated(trainers, r.body)
                   ELSE TrainersCreated(trainers, r.data[1])
    /\ notice' = IF r.kind = "put" THEN "Trainer updated successfully"
                                   ELSE "Trainer added successfully"
    /\ errorToasts' = errorToasts
    /\ showModal' = FALSE
    /\ trainerForm' = emptyTrainerForm
    /\ specialtyInput' = <<>>
    /\ certificationInput' = <<>>
    /\ filteredTrainers' = TrainersFilter(trainers', searchTerm)
    /\ hist' = Settled(r)
    /\ input' = "none"
    /\ UNCHANGED <<page, appVars, scheduleVars, dashboardVars, backendVars, issued, memberVars, paymentVars, viewVars,
                   isEditing>>

\* handleSubmit after its await rejected: the catch block
Trainers_handleSubmit_rejected(r) ==
    /\ page = "trainers"
    /\ r.kind \in {"put", "post"} /\ r.status = "fail"
    /\ inflight' = Remaining(r)
    /\ notice' = IF r.kind = "put" THEN "Failed to update trainer"
                                   ELSE "Failed to add trainer"
    /\ errorToasts' = errorToasts + 1
    /\ hist' = Settled(r)
    /\ input' = "none"
    /\ UNCHANGED <<page, appVars, scheduleVars, dashboardVars, backendVars, issued, memberVars, trainerVars, paymentVars,
                   viewVars, modalVars>>

\* handleDelete up to its await; confirmed is the answer to window.confirm
Trainers_handleDelete(id, confirmed) ==
    /\ page = "trainers"
    /\ \E t \in TrainerRows : t.id = id
    /\ confirmed => issued < MaxReq
    /\ issued' = IF confirmed THEN issued + 1 ELSE issued
    /\ inflight' = IF confirmed
                   THEN inflight \cup
                        {Request(issued + 1, "delete", "trainers", id, emptyTrainerForm)}
                   ELSE inflight
    /\ input' = IF confirmed THEN "yes" ELSE "no"
    /\ UNCHANGED <<page, appVars, scheduleVars, dashboardVars, backendVars, memberVars, trainerVars, paymentVars, viewVars,
                   modalVars, notice, errorToasts, hist>>

Trainers_handleDelete_resolved(r) ==
    /\ page = "trainers"
    /\ r.kind = "delete" /\ r.status = "ok"
    /\ inflight' = Remaining(r)
    /\ trainers' = TrainersDeleted(trainers, r.id)
    /\ notice' = "Trainer deleted successfully"
    /\ errorToasts' = errorToasts
    /\ filteredTrainers' = TrainersFilter(trainers', searchTerm)
    /\ hist' = SettledDelete(r)
    /\ input' = "none"
    /\ UNCHANGED <<page, appVars, scheduleVars, dashboardVars, backendVars, issued, memberVars, trainerForm, specialtyInput, certificationInput,
                   paymentVars, viewVars, modalVars>>

Trainers_handleDelete_rejected(r) ==
    /\ page = "trainers"
    /\ r.kind = "delete" /\ r.status = "fail"
    /\ inflight' = Remaining(r)
    /\ notice' = "Failed to delete trainer"
    /\ errorToasts' = errorToasts + 1
    /\ hist' = Settled(r)
    /\ input' = "none"
    /\ UNCHANGED <<page, appVars, scheduleVars, dashboardVars, backendVars, issued, memberVars, trainerVars, paymentVars,
                   viewVars, modalVars>>

\* fetchTrainers after its await resolved, then the filter effect
Trainers_fetchTrainers_resolved(r) ==
    /\ page = "trainers"
    /\ r.kind = "get" /\ r.status = "ok"
    /\ inflight' = Remaining(r)
    /\ trainers' = r.data
    /\ filteredTrainers' = TrainersFilter(r.data, searchTerm)
    /\ isLoading' = FALSE
    /\ hist' = SettledLoad(r)
    /\ input' = "none"
    /\ UNCHANGED <<page, appVars, scheduleVars, dashboardVars, backendVars, issued, memberVars, trainerForm, specialtyInput, certificationInput,
                   paymentVars, searchTerm, statusFilter, modalVars, notice, errorToasts>>

Trainers_fetchTrainers_rejected(r) ==
    /\ page = "trainers"
    /\ r.kind = "get" /\ r.status = "fail"
    /\ inflight' = Remaining(r)
    /\ notice' = "Failed to load trainers"
    /\ errorToasts' = errorToasts + 1
    /\ isLoading' = FALSE
    /\ hist' = Settled(r)
    /\ input' = "none"
    /\ UNCHANGED <<page, appVars, scheduleVars, dashboardVars, backendVars, issued, memberVars, trainerVars, paymentVars,
                   searchTerm, statusFilter, modalVars>>

\* opening and closing the add/edit modal
TrainersModal ==
    \/ Trainers_openAddModal
    \/ \E t \in TrainerRows : Trainers_openEditModal(t)
    \/ Trainers_closeModal

\* typing into the inputs `fields` of the trainer form
TrainersTyping(fields) ==
    \E f \in fields : \E v \in TrainerFieldValues(f) : Trainers_handleInputChange(f, v)

\* editing the specialties list of the trainer form
TrainersSpecialties ==
    \/ \E v \in SpecialtyInputs : Trainers_setSpecialtyInput(v)
    \/ Len(trainerForm.specialties) < MaxSpecialties /\ Trainers_addSpecialty
    \/ \E i \in 0..(MaxSpecialties - 1) : Trainers_removeSpecialty(i)

\* the promise awaited by fetchTrainers settles
TrainersFetchSettles ==
    \E r \in inflight :
        Trainers_fetchTrainers_resolved(r) \/ Trainers_fetchTrainers_rejected(r)

\* the promise awaited by handleSubmit settles
TrainersSubmitSettles ==
    \E r \in inflight :
        Trainers_handleSubmit_resolved(r) \/ Trainers_handleSubmit_rejected(r)

\* the promise awaited by handleDelete settles
TrainersDeleteSettles ==
    \E r \in inflight :
        Trainers_handleDelete_resolved(r) \/ Trainers_handleDelete_rejected(r)

-----------------------------------------------------------------------------
(* Payments page *)

\* members.find(m => m.id === memberId): the first such member, if any
FindMember(ms, memberId) ==
    IF \E i \in DOMAIN ms : ms[i].id = memberId
    THEN <<ms[CHOOSE i \in DOMAIN ms :
                 ms[i].id = memberId /\ \A j \in 1..(i - 1) : ms[j].id # memberId]>>
    ELSE <<>>

\* a getMemberName without the fallback text
GetMemberName_NoFallback(ms, memberId) ==
    IF FindMember(ms, memberId) # <<>> THEN FindMember(ms, memberId)[1].name ELSE <<>>

\* getMemberName
GetMemberName(ms, memberId) ==
    IF FindMember(ms, memberId) # <<>>
    THEN FindMember(ms, memberId)[1].name ELSE UnknownMember

\* getMemberEmail
GetMemberEmail(ms, memberId) ==
    IF FindMember(ms, memberId) # <<>>
    THEN FindMember(ms, memberId)[1].email ELSE UnknownEmail

\* the rows of the payments table: each displayed payment with the member
\* name and email shown in its first cell
PaymentRows ==
    IF isLoading THEN <<>>
    ELSE [i \in DOMAIN filteredPayments |->
            [payment |-> filteredPayments[i],
             memberName |-> GetMemberName(members, filteredPayments[i].memberId),
             memberEmail |-> GetMemberEmail(members, filteredPayments[i].memberId)]]

\* filteredPayments.reduce((sum, payment) => sum + payment.amount, 0)
RECURSIVE GetTotalAmount(_)
GetTotalAmount(fp) ==
    IF fp = <<>> THEN 0
    ELSE GetTotalAmount(SubSeq(fp, 1, Len(fp) - 1)) + fp[Len(fp)].amount

\* `$${amount.toFixed(2)}` for the amount num / den: the nearest number of
\* cents, written with two decimals
FormatCurrency(num, den) ==
    LET cents == (200 * num + den) \div (2 * den)
    IN  <<"$">> \o NumToString(cents \div 100) \o <<".">> \o
        <<Digits[((cents \div 10) % 10) + 1], Digits[(cents % 10) + 1]>>

\* a summary computed over all the loaded payments
SummaryCards_OfLoaded ==
    [totalAmount |-> FormatCurrency(GetTotalAmount(payments), 1),
     totalPayments |-> Len(payments),
     avgPayment |-> IF Len(payments) > 0
                    THEN FormatCurrency(GetTotalAmount(payments), Len(payments))
                    ELSE <<"$", "0", ".", "0", "0">>]

\* the three summary cards: Total Amount, Total Payments, Avg. Payment
SummaryCards ==
    [totalAmount |-> FormatCurrency(GetTotalAmount(filteredPayments), 1),
     totalPayments |-> Len(filteredPayments),
     avgPayment |-> IF Len(filteredPayments) > 0
                    THEN FormatCurrency(GetTotalAmount(filteredPayments),
                                        Len(filteredPayments))
                    ELSE <<"$", "0", ".", "0", "0">>]

\* the search predicate of applyFilters (term already lowercased); member?.
\* gives undefined, which counts as false, when no member was found
PaymentMatches(payment, ms, term) ==
    LET found == FindMember(ms, payment.memberId) IN
    \/ found # <<>> /\ Includes(ToLowerCase(found[1].name), term)
    \/ found # <<>> /\ Includes(ToLowerCase(found[1].email), term)
    \/ Includes(NumToString(payment.amount), term)
    \/ Includes(ToLowerCase(payment.method), term)

\* a[key] < b[key]
FieldLess(a, b, key) ==
    IF key \in NumericKeys THEN a[key] < b[key] ELSE StrLess(a[key], b[key])

\* the comparator of sortItems
Compare(a, b, config) ==
    IF FieldLess(a, b, config.key)
    THEN (IF config.direction = "asc" THEN -1 ELSE 1)
    ELSE IF FieldLess(b, a, config.key)
    THEN (IF config.direction = "asc" THEN 1 ELSE -1)
    ELSE 0

\* x put into the sorted list behind everything it does not precede
RECURSIVE InsertSorted(_, _, _)
InsertSorted(x, sorted, config) ==
    IF sorted = <<>> THEN <<x>>
    ELSE IF Compare(x, Head(sorted), config) < 0 THEN <<x>> \o sorted
    ELSE <<Head(sorted)>> \o InsertSorted(x, Tail(sorted), config)

\* Array.prototype.sort with the comparator: a stable sort
RECURSIVE StableSort(_, _)
StableSort(items, config) ==
    IF items = <<>> THEN <<>>
    ELSE InsertSorted(items[Len(items)],
                      StableSort(SubSeq(items, 1, Len(items) - 1), config), config)

\* a sortItems that always puts the smaller value first
SortItems_AlwaysAscending(items, config) ==
    IF config.key = "" THEN items
    ELSE StableSort(items, [config EXCEPT !.direction = "asc"])

\* sortItems; "" stands for the key null
SortItems(items, config) ==
    IF config.key = "" THEN items ELSE StableSort(items, config)

\* an applyFilters whose search drops the payments of unknown members
ApplyFilters_KnownMembersOnly(ps, ms, status, search, config) ==
    LET byStatus == IF status # All
                    THEN SelectSeq(ps, LAMBDA x : x.status = status)
                    ELSE ps
        result == IF search # <<>>
                  THEN SelectSeq(byStatus, LAMBDA x :
                          FindMember(ms, x.memberId) # <<>> /\
                          PaymentMatches(x, ms, ToLowerCase(search)))
                  ELSE byStatus
    IN  SortItems(result, config)

\* applyFilters: the value it gives filteredPayments
ApplyFilters(ps, ms, status, search, config) ==
    LET byStatus == IF status # All
                    THEN SelectSeq(ps, LAMBDA x : x.status = status)
                    ELSE ps
        result == IF search # <<>>
                  THEN SelectSeq(byStatus, LAMBDA x :
                          PaymentMatches(x, ms, ToLowerCase(search)))
                  ELSE byStatus
    IN  SortItems(result, config)

\* a requestSort that flips the direction whatever header is clicked
NewSortConfig_FlipsAlways(config, key) ==
    [key |-> key,
     direction |-> IF config.direction = "asc" THEN "desc" ELSE "asc"]

\* requestSort: the configuration it sets
NewSortConfig(config, key) ==
    [key |-> key,
     direction |-> IF config.key = key /\ config.direction = "asc"
                   THEN "desc" ELSE "asc"]

\* onChange of the search box: setSearchTerm, then the applyFilters effect
\* (typing the value the box already holds re-renders nothing)
Payments_setSearchTerm(term) ==
    /\ page = "payments"
    /\ term # searchTerm
    /\ searchTerm' = term
    /\ filteredPayments' = ApplyFilters(payments, members, statusFilter, term, sortConfig)
    /\ input' = "none"
    /\ UNCHANGED <<page, appVars, scheduleVars, dashboardVars, backendVars, inflight, issued, memberVars, trainerVars,
                   payments, sortConfig, isLoading, statusFilter, modalVars, notice, errorToasts,
                   hist>>

\* a status filter that keeps only what it displays
Payments_setStatusFilter_Narrows(status) ==
    /\ page = "payments"
    /\ status # statusFilter
    /\ statusFilter' = status
    /\ filteredPayments' = ApplyFilters(payments, members, status, searchTerm, sortConfig)
    /\ payments' = filteredPayments'
    /\ input' = "none"
    /\ UNCHANGED <<page, appVars, scheduleVars, dashboardVars, backendVars, inflight, issued,
                   memberVars, trainerVars, sortConfig, isLoading, searchTerm, modalVars,
                   notice, errorToasts, hist>>

\* onChange of the status select: setStatusFilter, then the applyFilters effect
Payments_setStatusFilter(status) ==
    /\ page = "payments"
    /\ status # statusFilter
    /\ statusFilter' = status
    /\ filteredPayments' = ApplyFilters(payments, members, status, searchTerm, sortConfig)
    /\ input' = "none"
    /\ UNCHANGED <<page, appVars, scheduleVars, dashboardVars, backendVars, inflight, issued, memberVars, trainerVars,
                   payments, sortConfig, isLoading, searchTerm, modalVars, notice, errorToasts,
                   hist>>

\* a click on a column header
Payments_requestSort(key) ==
    /\ page = "payments"
    /\ sortConfig' = NewSortConfig(sortConfig, key)
    /\ filteredPayments' = SortItems(filteredPayments, sortConfig')
    /\ input' = key
    /\ UNCHANGED <<page, appVars, scheduleVars, dashboardVars, backendVars, inflight, issued, memberVars, trainerVars,
                   payments, viewVars, modalVars, notice, errorToasts, hist>>

\* fetchPaymentsData after Promise.all resolved: the three state updates are
\* rendered together and the applyFilters effect of that render, run because
\* payments changed, replaces the list that setFilteredPayments was given
Payments_fetchPaymentsData_resolved(rp, rm) ==
    /\ page = "payments"
    /\ rp.coll = "payments" /\ rp.status = "ok"
    /\ rm.coll = "members" /\ rm.status = "ok"
    /\ inflight' = inflight \ {rp, rm}
    /\ payments' = rp.data
    /\ members' = rm.data
    /\ filteredPayments' =
          ApplyFilters(rp.data, rm.data, statusFilter, searchTerm, sortConfig)
    /\ isLoading' = FALSE
    /\ input' = "none"
    /\ UNCHANGED <<page, appVars, scheduleVars, dashboardVars, backendVars, issued, filteredMembers, memberForm,
                   trainerVars, sortConfig, searchTerm, statusFilter, modalVars,
                   notice, errorToasts, hist>>

\* fetchPaymentsData after Promise.all rejected: the first of the two
\* requests to fail rejects it, whatever the other one does
Payments_fetchPaymentsData_rejected(r) ==
    /\ page = "payments"
    /\ isLoading
    /\ r.status = "fail"
    /\ inflight' = Remaining(r)
    /\ notice' = "Failed to load payments"
    /\ errorToasts' = errorToasts + 1
    /\ isLoading' = FALSE
    /\ hist' = [hist EXCEPT !.allOk = FALSE]
    /\ input' = "none"
    /\ UNCHANGED <<page, appVars, scheduleVars, dashboardVars, backendVars, issued, memberVars,
                   trainerVars, paymentVars, searchTerm, statusFilter, modalVars>>

\* a load that takes the answer of the request that did succeed
Payments_fetchPaymentsData_dropped_Applies(r) ==
    /\ page = "payments"
    /\ ~isLoading
    /\ r.status # "sent"
    /\ inflight' = Remaining(r)
    /\ payments' = IF r.status = "ok" /\ r.coll = "payments" THEN r.data ELSE payments
    /\ members' = IF r.status = "ok" /\ r.coll = "members" THEN r.data ELSE members
    /\ filteredPayments' =
          ApplyFilters(payments', members', statusFilter, searchTerm, sortConfig)
    /\ hist' = [hist EXCEPT !.allOk = hist.allOk /\ r.status = "ok"]
    /\ input' = "none"
    /\ UNCHANGED <<page, appVars, scheduleVars, dashboardVars, backendVars, issued,
                   filteredMembers, memberForm, trainerVars, sortConfig, viewVars,
                   modalVars, notice, errorToasts>>

\* the answer to the other request arrives after Promise.all rejected:
\* nobody awaits it
Payments_fetchPaymentsData_dropped(r) ==
    /\ page = "payments"
    /\ ~isLoading
    /\ r.status # "sent"
    /\ inflight' = Remaining(r)
    /\ hist' = [hist EXCEPT !.allOk = hist.allOk /\ r.status = "ok"]
    /\ input' = "none"
    /\ UNCHANGED <<page, appVars, scheduleVars, dashboardVars, backendVars, issued, memberVars,
                   trainerVars, paymentVars, viewVars, modalVars, notice, errorToasts>>

\* the promise awaited by fetchPaymentsData settles
PaymentsFetchSettles ==
    \/ \E rp, rm \in inflight : Payments_fetchPaymentsData_resolved(rp, rm)
    \/ \E r \in inflight : Payments_fetchPaymentsData_rejected(r)
    \/ \E r \in inflight : Payments_fetchPaymentsData_dropped(r)

-----------------------------------------------------------------------------
(* Schedule page *)

\* c.days.includes(selectedDay): the day is an element of the list
DaysInclude(list, day) == \E i \in DOMAIN list : list[i] = day

\* a day filter that looks at the first day of a class only
FilteredClasses_FirstDayOnly(cs, day) ==
    IF day = All THEN cs
    ELSE SelectSeq(cs, LAMBDA c : c.days # <<>> /\ c.days[1] = day)

\* filteredClasses, computed at every render
FilteredClasses(cs, day) ==
    IF day = All THEN cs ELSE SelectSeq(cs, LAMBDA c : DaysInclude(c.days, day))

\* trainers.find(t => t.id === id): the first such trainer, if any
FindTrainer(ts, id) ==
    IF \E i \in DOMAIN ts : ts[i].id = id
    THEN <<ts[CHOOSE i \in DOMAIN ts :
                 ts[i].id = id /\ \A j \in 1..(i - 1) : ts[j].id # id]>>
    ELSE <<>>

\* getTrainerName
GetTrainerName(ts, id) ==
    IF FindTrainer(ts, id) # <<>> THEN FindTrainer(ts, id)[1].name ELSE Unknown

\* which of the three branches the Schedule page renders
ScheduleBranch ==
    IF isLoading THEN "spinner"
    ELSE IF Len(FilteredClasses(classes, selectedDay)) = 0 THEN "No Classes Scheduled"
    ELSE "grid"

\* time.split(':'): the pieces of s between the separators
RECURSIVE Split(_, _)
Split(s, sep) ==
    IF \A k \in DOMAIN s : s[k] # sep THEN <<s>>
    ELSE LET k == CHOOSE j \in DOMAIN s : s[j] = sep /\ \A l \in 1..(j - 1) : s[l] # sep
         IN  <<SubSeq(s, 1, k - 1)>> \o Split(SubSeq(s, k + 1, Len(s)), sep)

\* the value that is not a number (0 / 0, or parseInt of no digit): it
\* compares false with every number, as -1 does with 50, 75 and 12
NaN == 0 - 1

\* parseInt(s, 10): the number written by the digits s starts with
ParseInt(s) ==
    LET IsDigit(c) == \E i \in DOMAIN Digits : Digits[i] = c
        RECURSIVE Read(_, _)
        Read(k, acc) == IF k > Len(s) \/ ~IsDigit(s[k]) THEN acc
                        ELSE Read(k + 1, 10 * acc + Pos(Digits, s[k]) - 1)
    IN  IF s = <<>> \/ ~IsDigit(s[1]) THEN NaN ELSE Read(1, 0)

\* a formatTime without the `|| 12`
FormatTime_NoTwelve(time) ==
    LET parts == Split(time, ":")
        hour == ParseInt(parts[1])
        suffix == IF hour >= 12 THEN <<"P", "M">> ELSE <<"A", "M">>
        displayHour == hour % 12
    IN  NumToString(displayHour) \o <<":">> \o parts[2] \o <<" ">> \o suffix

\* formatTime: 24-hour 'HH:MM' to 12-hour
FormatTime(time) ==
    LET parts == Split(time, ":")
        hour == ParseInt(parts[1])
        suffix == IF hour >= 12 THEN <<"P", "M">> ELSE <<"A", "M">>
        displayHour == IF hour = NaN \/ hour % 12 = 0 THEN 12 ELSE hour % 12
    IN  NumToString(displayHour) \o <<":">> \o parts[2] \o <<" ">> \o suffix

\* enrollmentPercentage: Math.round((enrolled / capacity) * 100), which rounds
\* a half up; 0 / 0 is NaN (the quotients of the capacities tried are exact
\* where they lie half-way between two integers)
EnrollmentPercentage(enrolled, capacity) ==
    IF capacity = 0 THEN NaN
    ELSE (200 * enrolled + capacity) \div (2 * capacity)

\* the colour class of the enrollment bar
BarColour(percentage) ==
    IF percentage > 75 THEN "error"
    ELSE IF percentage > 50 THEN "warning"
    ELSE "success"

\* `${percentage}%`
PercentText(percentage) ==
    IF percentage = NaN THEN <<"N", "a", "N", "%">>
    ELSE NumToString(percentage) \o <<"%">>

\* the cards of the grid: each class with the trainer name, the times, the
\* percentage and the bar shown on it
ScheduleCards ==
    IF ScheduleBranch # "grid" THEN <<>>
    ELSE LET shown == FilteredClasses(classes, selectedDay) IN
         [i \in DOMAIN shown |->
            [class |-> shown[i], trainerName |-> GetTrainerName(trainers, shown[i].trainer),
             timeStart |-> FormatTime(shown[i].timeStart),
             timeEnd |-> FormatTime(shown[i].timeEnd),
             percentage |-> PercentText(EnrollmentPercentage(shown[i].enrolled,
                                                             shown[i].capacity)),
             bar |-> BarColour(EnrollmentPercentage(shown[i].enrolled,
                                                    shown[i].capacity))]]

\* onClick of a day tab
Schedule_setSelectedDay(day) ==
    /\ page = "schedule"
    /\ day # selectedDay
    /\ selectedDay' = day
    /\ input' = "none"
    /\ UNCHANGED <<page, appVars, dashboardVars, backendVars, inflight, issued, memberVars,
                   trainerVars, paymentVars, classes, viewVars, modalVars, notice,
                   errorToasts, hist>>

\* fetchScheduleData after Promise.all resolved
Schedule_fetchScheduleData_resolved(rc, rt) ==
    /\ page = "schedule"
    /\ rc.coll = "classes" /\ rc.status = "ok"
    /\ rt.coll = "trainers" /\ rt.status = "ok"
    /\ inflight' = inflight \ {rc, rt}
    /\ classes' = rc.data
    /\ trainers' = rt.data
    /\ isLoading' = FALSE
    /\ input' = "none"
    /\ UNCHANGED <<page, appVars, dashboardVars, backendVars, issued, memberVars,
                   filteredTrainers, trainerForm, specialtyInput, certificationInput, paymentVars,
                   selectedDay, searchTerm, statusFilter, modalVars, notice,
                   errorToasts, hist>>

\* fetchScheduleData after Promise.all rejected: the first of the two
\* requests to fail rejects it
Schedule_fetchScheduleData_rejected(r) ==
    /\ page = "schedule"
    /\ isLoading
    /\ r.status = "fail"
    /\ inflight' = Remaining(r)
    /\ notice' = "Failed to load schedule"
    /\ errorToasts' = errorToasts + 1
    /\ isLoading' = FALSE
    /\ hist' = [hist EXCEPT !.allOk = FALSE]
    /\ input' = "none"
    /\ UNCHANGED <<page, appVars, scheduleVars, dashboardVars, backendVars, issued, memberVars,
                   trainerVars, paymentVars, searchTerm, statusFilter, modalVars>>

\* the answer to the other request arrives after Promise.all rejected
Schedule_fetchScheduleData_dropped(r) ==
    /\ page = "schedule"
    /\ ~isLoading
    /\ r.status # "sent"
    /\ inflight' = Remaining(r)
    /\ hist' = [hist EXCEPT !.allOk = hist.allOk /\ r.status = "ok"]
    /\ input' = "none"
    /\ UNCHANGED <<page, appVars, scheduleVars, dashboardVars, backendVars, issued, memberVars,
                   trainerVars, paymentVars, viewVars, modalVars, notice, errorToasts>>

\* the promise awaited by fetchScheduleData settles
ScheduleFetchSettles ==
    \/ \E rc, rt \in inflight : Schedule_fetchScheduleData_resolved(rc, rt)
    \/ \E r \in inflight : Schedule_fetchScheduleData_rejected(r)
    \/ \E r \in inflight : Schedule_fetchScheduleData_dropped(r)

-----------------------------------------------------------------------------
(* Dashboard page *)

\* membersRes.data.filter(member => member.membershipStatus === 'Active')
ActiveOf(ms) == SelectSeq(ms, LAMBDA m : m.membershipStatus = Active)

\* the payments dated after the cutoff
RecentOf(ps, cutoff) == SelectSeq(ps, LAMBDA p : StrLess(cutoff, p.date))

\* Array.prototype.slice(0, n)
SliceFirst(list, n) == SubSeq(list, 1, IF Len(list) < n THEN Len(list) ELSE n)

\* how many active members the Dashboard lists
MaxListed == 5

\* fetchDashboardData after Promise.all resolved; cutoff is thirty days
\* before the moment it runs
Dashboard_fetchDashboardData_resolved(rm, rt, rc, rp, cutoff) ==
    /\ page = "dashboard"
    /\ rm.coll = "members" /\ rm.status = "ok"
    /\ rt.coll = "trainers" /\ rt.status = "ok"
    /\ rc.coll = "classes" /\ rc.status = "ok"
    /\ rp.coll = "payments" /\ rp.status = "ok"
    /\ inflight' = inflight \ {rm, rt, rc, rp}
    /\ stats' = [totalMembers |-> Len(rm.data),
                 activeMembers |-> Len(ActiveOf(rm.data)),
                 totalTrainers |-> Len(rt.data),
                 totalClasses |-> Len(rc.data),
                 recentPayments |-> Len(RecentOf(rp.data, cutoff))]
    /\ activeMembers' = SliceFirst(ActiveOf(rm.data), MaxListed)
    /\ isLoading' = FALSE
    /\ input' = "none"
    /\ UNCHANGED <<page, appVars, scheduleVars, backendVars, issued, memberVars, trainerVars,
                   paymentVars, searchTerm, statusFilter, modalVars, notice,
                   errorToasts, hist>>

\* fetchDashboardData after Promise.all rejected: the catch block writes to
\* the console only
Dashboard_fetchDashboardData_rejected(r) ==
    /\ page = "dashboard"
    /\ isLoading
    /\ r.status = "fail"
    /\ inflight' = Remaining(r)
    /\ isLoading' = FALSE
    /\ hist' = [hist EXCEPT !.allOk = FALSE]
    /\ input' = "none"
    /\ UNCHANGED <<page, appVars, scheduleVars, dashboardVars, backendVars, issued, memberVars,
                   trainerVars, paymentVars, searchTerm, statusFilter, modalVars,
                   notice, errorToasts>>

\* the answer to another request arrives after Promise.all rejected
Dashboard_fetchDashboardData_dropped(r) ==
    /\ page = "dashboard"
    /\ ~isLoading
    /\ r.status # "sent"
    /\ inflight' = Remaining(r)
    /\ hist' = [hist EXCEPT !.allOk = hist.allOk /\ r.status = "ok"]
    /\ input' = "none"
    /\ UNCHANGED <<page, appVars, scheduleVars, dashboardVars, backendVars, issued, memberVars,
                   trainerVars, paymentVars, viewVars, modalVars, notice, errorToasts>>

\* the promise awaited by fetchDashboardData settles
DashboardFetchSettles ==
    \/ \E rm, rt, rc, rp \in inflight : \E cutoff \in Cutoffs :
          Dashboard_fetchDashboardData_resolved(rm, rt, rc, rp, cutoff)
    \/ \E r \in inflight : Dashboard_fetchDashboardData_rejected(r)
    \/ \E r \in inflight : Dashboard_fetchDashboardData_dropped(r)

-----------------------------------------------------------------------------
(* Specification *)

\* what every page starts with, whatever it uses of it
InitState ==
    /\ pathname = <<page>>
    /\ isPageLoading = TRUE
    /\ timers = {1}
    /\ leftLoads = EmptyBag
    /\ issued = 0
    /\ members = <<>> /\ filteredMembers = <<>>
    /\ trainers = <<>> /\ filteredTrainers = <<>>
    /\ payments = <<>> /\ filteredPayments = <<>>
    /\ sortConfig = [key |-> "date", direction |-> "desc"]
    /\ classes = <<>> /\ selectedDay = All
    /\ stats = emptyStats /\ activeMembers = <<>>
    /\ isLoading = TRUE
    /\ searchTerm = <<>>
    /\ statusFilter = All
    /\ showModal = FALSE /\ isEditing = FALSE
    /\ memberForm = emptyMemberForm
    /\ trainerForm = emptyTrainerForm
    /\ specialtyInput = <<>>
    /\ certificationInput = <<>>
    /\ notice = ""
    /\ errorToasts = 0
    /\ input = "none"
    /\ hist = [allOk |-> TRUE, inOrder |-> TRUE, fresh |-> TRUE, top |-> TopOf(db),
               openedAt |-> 0, overtaken |-> {}, loaded |-> FALSE,
               loadedFirst |-> FALSE]

SeedDb ==
    [members |-> SeedMembers, trainers |-> SeedTrainers, classes |-> SeedClasses,
     payments |-> <<>>]

\* the Members page right after it mounted: fetchMembers is awaiting its request
InitMembers ==
    /\ page = "members"
    /\ db = SeedDb
    /\ inflight = {Request(0, "get", "members", NoId, emptyMemberForm)}
    /\ InitState

\* the Trainers page right after it mounted: fetchTrainers is awaiting its request
InitTrainers ==
    /\ page = "trainers"
    /\ db = SeedDb
    /\ inflight = {Request(0, "get", "trainers", NoId, emptyTrainerForm)}
    /\ InitState

Init == InitMembers \/ InitTrainers

Backend == \E r \in inflight : BackendHandle(r) \/ BackendReject(r)

\* Members and Trainers as create/update/delete front ends: the user edits
\* names, saves and confirms deletes without waiting for earlier requests
Next ==
    \/ MembersModal
    \/ MembersTyping({"name"})
    \/ Members_handleSubmit
    \/ \E m \in MemberRows : Members_handleDelete(m.id, TRUE)
    \/ MembersFetchSettles
    \/ MembersSubmitSettles
    \/ MembersDeleteSettles
    \/ TrainersModal
    \/ TrainersTyping({"name"})
    \/ Trainers_handleSubmit
    \/ \E t \in TrainerRows : Trainers_handleDelete(t.id, TRUE)
    \/ TrainersFetchSettles
    \/ TrainersSubmitSettles
    \/ TrainersDeleteSettles
    \/ Backend

Spec == Init /\ [][Next]_vars

\* the Members page with its search box and status select in use, the user
\* waiting for each save or delete to settle before issuing the next
NextMembers ==
    \/ MembersView
    \/ MembersModal
    \/ MembersTyping({"name", "membershipStatus"})
    \/ inflight = {} /\ Members_handleSubmit
    \/ inflight = {} /\ \E m \in MemberRows : Members_handleDelete(m.id, TRUE)
    \/ MembersFetchSettles
    \/ MembersSubmitSettles
    \/ MembersDeleteSettles
    \/ Backend

SpecMembers == InitMembers /\ [][NextMembers]_vars

\* deleting on either page, the user confirming or declining each prompt,
\* with the list filtered in between
NextDelete ==
    \/ MembersView
    \/ \E m \in MemberRows : \E c \in BOOLEAN : Members_handleDelete(m.id, c)
    \/ MembersFetchSettles
    \/ MembersDeleteSettles
    \/ \E t \in TrainerSearchTerms : Trainers_setSearchTerm(t)
    \/ \E t \in TrainerRows : \E c \in BOOLEAN : Trainers_handleDelete(t.id, c)
    \/ TrainersFetchSettles
    \/ TrainersDeleteSettles
    \/ Backend

SpecDelete == Init /\ [][NextDelete]_vars

\* the Payments page right after it mounted: fetchPaymentsData is awaiting
\* the two requests of its Promise.all
InitPayments ==
    /\ page = "payments"
    /\ \E ps \in SeedPayments :
          db = [SeedDb EXCEPT !.payments = ps]
    /\ inflight = {Request(0, "get", "payments", NoId, emptyMemberForm),
                   Request(1, "get", "members", NoId, emptyMemberForm)}
    /\ InitState

NextPayments ==
    \/ \E t \in PaymentSearchTerms : Payments_setSearchTerm(t)
    \/ \E st \in PaymentStatusOptions : Payments_setStatusFilter(st)
    \/ \E k \in SortKeys : Payments_requestSort(k)
    \/ PaymentsFetchSettles
    \/ Backend

SpecPayments == InitPayments /\ [][NextPayments]_vars

\* the Schedule page right after it mounted: fetchScheduleData is awaiting
\* the two requests of its Promise.all
InitSchedule ==
    /\ page = "schedule"
    /\ \E cs \in SeedClassLists : db = [SeedDb EXCEPT !.classes = cs]
    /\ inflight = {Request(0, "get", "classes", NoId, emptyMemberForm),
                   Request(1, "get", "trainers", NoId, emptyMemberForm)}
    /\ InitState

\* the Dashboard right after it mounted: fetchDashboardData is awaiting the
\* four requests of its Promise.all
InitDashboard ==
    /\ page = "dashboard"
    /\ db = [SeedDb EXCEPT !.payments = <<CHOOSE p \in SeedPaymentPool : p.id = 1,
                                          CHOOSE p \in SeedPaymentPool : p.id = 2>>]
    /\ inflight = {Request(0, "get", "members", NoId, emptyMemberForm),
                   Request(1, "get", "trainers", NoId, emptyMemberForm),
                   Request(2, "get", "classes", NoId, emptyMemberForm),
                   Request(3, "get", "payments", NoId, emptyMemberForm)}
    /\ InitState

NextSchedule ==
    \/ \E d \in {All} \cup Range(days) : Schedule_setSelectedDay(d)
    \/ ScheduleFetchSettles
    \/ Backend

\* any of the five pages is opened; on Members and Trainers the user saves
\* and deletes as in Next, either confirming or declining the prompt
InitPages == Init \/ InitPayments \/ InitSchedule \/ InitDashboard

NextPages ==
    \/ Next
    \/ \E m \in MemberRows : Members_handleDelete(m.id, FALSE)
    \/ \E t \in TrainerRows : Trainers_handleDelete(t.id, FALSE)
    \/ PaymentsFetchSettles
    \/ ScheduleFetchSettles
    \/ DashboardFetchSettles

SpecPages == InitPages /\ [][NextPages]_vars

\* the three pages that filter what they list, each with its controls in use
InitViews == InitMembers \/ InitPayments \/ InitSchedule

NextViews == NextMembers \/ NextPayments \/ NextSchedule

SpecViews == InitViews /\ [][NextViews]_vars

\* the Trainers page with its search box and the specialties editor in use,
\* the user waiting for each save or delete to settle before the next
NextTrainers ==
    \/ \E t \in TrainerSearchTerms : Trainers_setSearchTerm(t)
    \/ TrainersModal
    \/ TrainersTyping({"name"})
    \/ TrainersSpecialties
    \/ inflight = {} /\ Trainers_handleSubmit
    \/ inflight = {} /\ \E t \in TrainerRows : Trainers_handleDelete(t.id, TRUE)
    \/ TrainersFetchSettles
    \/ TrainersSubmitSettles
    \/ TrainersDeleteSettles
    \/ Backend

SpecTrainers == InitTrainers /\ [][NextTrainers]_vars

\* the Members search on its own: one member with any short name, email and
\* phone is loaded, and the user types any short search term
SearchChars == {"a", "A"}

SearchStrings == UNION {[1..n -> SearchChars] : n \in 0..MaxStrLen}

InitSearch ==
    /\ page = "members"
    /\ pathname = <<page>> /\ isPageLoading = FALSE /\ timers = {}
    /\ leftLoads = EmptyBag
    /\ db = SeedDb
    /\ inflight = {}
    /\ issued = 0
    /\ \E n \in SearchStrings, e \in SearchStrings, ph \in SearchStrings :
          members = << [id |-> 1, name |-> n, email |-> e, phone |-> ph,
                        membershipStatus |-> Active] >>
    /\ filteredMembers = members
    /\ trainers = <<>> /\ filteredTrainers = <<>>
    /\ payments = <<>> /\ filteredPayments = <<>>
    /\ sortConfig = [key |-> "date", direction |-> "desc"]
    /\ classes = <<>> /\ selectedDay = All
    /\ stats = emptyStats /\ activeMembers = <<>>
    /\ isLoading = FALSE
    /\ searchTerm = <<>>
    /\ statusFilter = All
    /\ showModal = FALSE /\ isEditing = FALSE
    /\ memberForm = emptyMemberForm
    /\ trainerForm = emptyTrainerForm
    /\ specialtyInput = <<>>
    /\ certificationInput = <<>>
    /\ notice = ""
    /\ errorToasts = 0
    /\ input = "none"
    /\ hist = [allOk |-> TRUE, inOrder |-> TRUE, fresh |-> TRUE, top |-> TopOf(db),
               openedAt |-> 0, overtaken |-> {}, loaded |-> TRUE,
               loadedFirst |-> TRUE]

NextSearch == \E t \in SearchStrings : Members_setSearchTerm(t)

SpecSearch == InitSearch /\ [][NextSearch]_vars

\* no request in flight is an update or a delete of the record with this id
Untouched(id) == \A q \in inflight : q.id # id

\* the Members page from its mount on, the user saving and deleting without
\* waiting, also while the load is pending, but never touching a record a
\* request in flight is about
NextConcurrent ==
    \/ MembersModal
    \/ MembersTyping({"name"})
    \/ /\ isEditing => Untouched(memberForm.id)
       /\ Members_handleSubmit
    \/ \E m \in MemberRows : Untouched(m.id) /\ Members_handleDelete(m.id, TRUE)
    \/ MembersFetchSettles
    \/ MembersSubmitSettles
    \/ MembersDeleteSettles
    \/ Backend

SpecConcurrent == InitMembers /\ [][NextConcurrent]_vars

\* Members and Trainers opened over a backend whose payments and classes
\* refer to the records listed; the user types into the form the name of a
\* record that is listed
InitIntegrity ==
    /\ page \in {"members", "trainers"}
    /\ db = [SeedDb EXCEPT !.payments = <<CHOOSE p \in SeedPaymentPool : p.id = 1,
                                          CHOOSE p \in SeedPaymentPool : p.id = 2>>]
    /\ inflight = {Request(0, "get", page, NoId,
                           IF page = "members" THEN emptyMemberForm ELSE emptyTrainerForm)}
    /\ InitState

NextIntegrity ==
    \/ MembersModal
    \/ \E m \in MemberRows : Members_handleInputChange("name", m.name)
    \/ Members_handleSubmit
    \/ \E m \in MemberRows : Members_handleDelete(m.id, TRUE)
    \/ MembersFetchSettles
    \/ MembersSubmitSettles
    \/ MembersDeleteSettles
    \/ TrainersModal
    \/ \E t \in TrainerRows : Trainers_handleInputChange("name", t.name)
    \/ Trainers_handleSubmit
    \/ \E t \in TrainerRows : Trainers_handleDelete(t.id, TRUE)
    \/ TrainersFetchSettles
    \/ TrainersSubmitSettles
    \/ TrainersDeleteSettles
    \/ Backend

SpecIntegrity == InitIntegrity /\ [][NextIntegrity]_vars

\* the Members page with its list loaded and the delete of member m confirmed
\* a moment ago: the request is on its way
DeleteInFlight(m) ==
    /\ page = "members"
    /\ pathname = <<page>> /\ isPageLoading = FALSE /\ timers = {}
    /\ leftLoads = EmptyBag
    /\ db = SeedDb
    /\ inflight = {Request(0, "delete", "members", m.id, emptyMemberForm)}
    /\ issued = 0
    /\ members = SeedMembers /\ filteredMembers = SeedMembers
    /\ trainers = <<>> /\ filteredTrainers = <<>>
    /\ payments = <<>> /\ filteredPayments = <<>>
    /\ sortConfig = [key |-> "date", direction |-> "desc"]
    /\ classes = <<>> /\ selectedDay = All
    /\ stats = emptyStats /\ activeMembers = <<>>
    /\ isLoading = FALSE
    /\ searchTerm = <<>>
    /\ statusFilter = All
    /\ showModal = FALSE /\ isEditing = FALSE
    /\ memberForm = emptyMemberForm
    /\ trainerForm = emptyTrainerForm
    /\ specialtyInput = <<>>
    /\ certificationInput = <<>>
    /\ notice = ""
    /\ errorToasts = 0
    /\ input = "yes"
    /\ hist = [allOk |-> TRUE, inOrder |-> TRUE, fresh |-> TRUE, top |-> TopOf(db),
               openedAt |-> 0, overtaken |-> {}, loaded |-> TRUE,
               loadedFirst |-> TRUE]

InitOvertake == \E i \in DOMAIN SeedMembers : DeleteInFlight(SeedMembers[i])

\* while that delete is on its way the user adds members and edits the name
\* of listed ones, saving without waiting
NextOvertake ==
    \/ MembersModal
    \/ isEditing /\ MembersTyping({"name"})
    \/ Members_handleSubmit
    \/ MembersSubmitSettles
    \/ MembersDeleteSettles
    \/ Backend

SpecOvertake == InitOvertake /\ [][NextOvertake]_vars

\* editing the certifications list of the trainer form
TrainersCertifications ==
    \/ \E v \in SpecialtyInputs : Trainers_setCertificationInput(v)
    \/ Len(trainerForm.certifications) < MaxSpecialties /\ Trainers_addCertification
    \/ \E i \in 0..(MaxSpecialties - 1) : Trainers_removeCertification(i)

\* the Trainers page with the two list editors of its form in use: the user
\* opens the modal from the page, edits the lists, saves or closes, and waits
\* for each save to settle
NextTrainerForm ==
    \/ /\ inflight = {}
       /\ \/ ~showModal /\ Trainers_openAddModal
          \/ ~showModal /\ \E t \in TrainerRows : Trainers_openEditModal(t)
          \/ Trainers_closeModal
          \/ TrainersSpecialties
          \/ TrainersCertifications
          \/ Trainers_handleSubmit
    \/ TrainersFetchSettles
    \/ TrainersSubmitSettles
    \/ Backend

SpecTrainerForm == InitTrainers /\ [][NextTrainerForm]_vars

-----------------------------------------------------------------------------
(* Schedule: the times and the enrollment bar of a card *)

\* the start times tried: every hour of the day, on the hour and a minute
\* before the next
Times ==
    {<<Digits[(h \div 10) + 1], Digits[(h % 10) + 1], ":", m[1], m[2]>> :
        h \in 0..23, m \in {<<"0", "0">>, <<"5", "9">>}}

\* the classes tried on a card: one of the backend's classes at each of the
\* start times, and with each enrollment up to each capacity
CardClasses ==
    {[SeedClasses[1] EXCEPT !.timeStart = t] : t \in Times} \cup
    UNION {{[SeedClasses[1] EXCEPT !.capacity = c, !.enrolled = e] : e \in 0..c} :
              c \in 0..MaxCapacity}

InitCards ==
    /\ page = "schedule"
    /\ \E c \in CardClasses : db = [SeedDb EXCEPT !.classes = <<c>>]
    /\ inflight = {Request(0, "get", "classes", NoId, emptyMemberForm),
                   Request(1, "get", "trainers", NoId, emptyMemberForm)}
    /\ InitState

SpecCards == InitCards /\ [][NextSchedule]_vars

-----------------------------------------------------------------------------
(* App: the route table, the links and the page-transition effect *)

\* the children of the layout route "/"
LayoutPages == {"dashboard", "members", "trainers", "schedule", "payments"}

\* the element <Routes> renders for a pathname: "/login", the index route,
\* a child of the layout route matched to the end, or the catch-all
RouteElement(path) ==
    IF path = <<"login">> THEN "login"
    ELSE IF path = <<>> THEN "index"
    ELSE IF Len(path) = 1 /\ path[1] \in LayoutPages THEN path[1]
    ELSE "notfound"

\* the index route renders <Navigate to="/dashboard" replace />
Landing(path) == IF RouteElement(path) = "index" THEN <<"dashboard">> ELSE path

\* the `to` of the five NavItems of the Sidebar
SidebarLinks ==
    {<<"dashboard">>, <<"members">>, <<"trainers">>, <<"schedule">>, <<"payments">>}

\* the `to` of "Add New Member" and of "View All" on the Dashboard
DashboardLinks == {<<"members", "add">>, <<"members">>}

\* the `to` of "Back to Dashboard" on the not-found page
NotFoundLinks == {<<"dashboard">>}

\* the links on screen
LinksShown ==
    IF page \in LayoutPages
    THEN SidebarLinks \cup (IF page = "dashboard" /\ ~isLoading THEN DashboardLinks ELSE {})
    ELSE IF page = "notfound" THEN NotFoundLinks
    ELSE {}

\* the requests a page issues from its mount effect
LoadRequests(p) ==
    CASE p = "members" -> {Request(0, "get", "members", NoId, emptyMemberForm)}
      [] p = "trainers" -> {Request(0, "get", "trainers", NoId, emptyTrainerForm)}
      [] p = "payments" -> {Request(0, "get", "payments", NoId, emptyMemberForm),
                            Request(1, "get", "members", NoId, emptyMemberForm)}
      [] p = "schedule" -> {Request(0, "get", "classes", NoId, emptyMemberForm),
                            Request(1, "get", "trainers", NoId, emptyMemberForm)}
      [] p = "dashboard" -> {Request(0, "get", "members", NoId, emptyMemberForm),
                             Request(1, "get", "trainers", NoId, emptyMemberForm),
                             Request(2, "get", "classes", NoId, emptyMemberForm),
                             Request(3, "get", "payments", NoId, emptyMemberForm)}
      [] OTHER -> {}

\* a request of a page left: nobody reads its answer or the order it came in
LeftRequest(r) == [r EXCEPT !.data = <<>>, !.after = {}]

\* page p is mounted: its state is the initial one and its load is on its
\* way; nothing aborts the requests of the page left, whose load goes on
\* awaiting them if it has not settled yet (the user moves about without
\* saving or deleting, so they are the requests of the load)
Mount(p) ==
    /\ page' = p
    /\ inflight' = LoadRequests(p)
    /\ leftLoads' = IF inflight = {} THEN leftLoads
                    ELSE leftLoads (+) SetToBag({[owner |-> page, awaited |-> isLoading,
                                                  reqs |-> {LeftRequest(r) : r \in inflight}]})
    /\ issued' = 0
    /\ members' = <<>> /\ filteredMembers' = <<>>
    /\ trainers' = <<>> /\ filteredTrainers' = <<>>
    /\ payments' = <<>> /\ filteredPayments' = <<>>
    /\ sortConfig' = [key |-> "date", direction |-> "desc"]
    /\ classes' = <<>> /\ selectedDay' = All
    /\ stats' = emptyStats /\ activeMembers' = <<>>
    /\ isLoading' = TRUE
    /\ searchTerm' = <<>>
    /\ statusFilter' = All
    /\ showModal' = FALSE /\ isEditing' = FALSE
    /\ memberForm' = emptyMemberForm
    /\ trainerForm' = emptyTrainerForm
    /\ specialtyInput' = <<>>
    /\ certificationInput' = <<>>
    /\ hist' = [allOk |-> TRUE, inOrder |-> TRUE, fresh |-> TRUE, top |-> TopOf(db),
                openedAt |-> 0, overtaken |-> {}, loaded |-> FALSE,
               loadedFirst |-> FALSE]

\* the handle setTimeout returns: one that none of the pending timeouts has
NewTimer(pending) == IF pending = {} THEN 1 ELSE Max(pending) + 1

\* a page-transition effect that returns no cleanup
App_navigate_NoCleanup(to) ==
    /\ to \in LinksShown
    /\ Landing(to) # pathname
    /\ inflight = {} \/ BagCardinality(leftLoads) < MaxLeft
    /\ pathname' = Landing(to)
    /\ Mount(RouteElement(pathname'))
    /\ isPageLoading' = TRUE
    /\ timers' = timers \cup {NewTimer(timers)}
    /\ input' = "none"
    /\ UNCHANGED <<backendVars, notice, errorToasts>>

\* the user follows a link to another pathname: the route's page is mounted,
\* and the page-transition effect runs again: the cleanup of its last run
\* clears that run's timeout, then the flag is set and a timeout started
App_navigate(to) ==
    /\ to \in LinksShown
    /\ Landing(to) # pathname
    /\ inflight = {} \/ BagCardinality(leftLoads) < MaxLeft
    /\ pathname' = Landing(to)
    /\ Mount(RouteElement(pathname'))
    /\ isPageLoading' = TRUE
    /\ timers' = {NewTimer({})}
    /\ input' = "none"
    /\ UNCHANGED <<backendVars, notice, errorToasts>>

\* 300 ms have passed since timeout t was started: its callback runs
App_timeout(t) ==
    /\ t \in timers
    /\ isPageLoading' = FALSE
    /\ timers' = timers \ {t}
    /\ input' = "none"
    /\ UNCHANGED <<page, pathname, leftLoads, backendVars, inflight, issued, memberVars,
                   trainerVars, paymentVars, scheduleVars, dashboardVars, viewVars,
                   modalVars, notice, errorToasts, hist>>

\* the loads of pages left, with load c replaced by what is left of it
LeftLoadsWith(c, now) ==
    (leftLoads (-) SetToBag({c})) (+) (IF now.reqs = {} THEN EmptyBag ELSE SetToBag({now}))

\* request r of the load c of a page left is answered 2xx; when it is the
\* last one the load resolves, and the state it sets is that of a component
\* no longer mounted
Left_load_answered(c, r) ==
    /\ BagIn(c, leftLoads) /\ r \in c.reqs
    /\ r.status \in {"sent", "ok"}
    /\ BackendServes(r)
    /\ r.kind = "get"
    /\ leftLoads' = LeftLoadsWith(c, [c EXCEPT !.reqs = @ \ {r}])
    /\ input' = "none"
    /\ UNCHANGED <<page, pathname, isPageLoading, timers, backendVars, inflight, issued,
                   memberVars, trainerVars, paymentVars, scheduleVars, dashboardVars,
                   viewVars, modalVars, notice, errorToasts, hist>>

\* request r of the load c of a page left fails and the load, still awaiting
\* it, rejects: its catch block shows the toast as if the page were mounted
\* (the Dashboard's writes to the console only)
Left_load_rejected(c, r) ==
    /\ BagIn(c, leftLoads) /\ r \in c.reqs
    /\ c.awaited
    /\ r.status \in {"sent", "fail"}
    /\ leftLoads' = LeftLoadsWith(c, [c EXCEPT !.awaited = FALSE, !.reqs = @ \ {r}])
    /\ notice' = CASE c.owner = "members" -> "Failed to load members"
                   [] c.owner = "trainers" -> "Failed to load trainers"
                   [] c.owner = "payments" -> "Failed to load payments"
                   [] c.owner = "schedule" -> "Failed to load schedule"
                   [] OTHER -> notice
    /\ errorToasts' = IF c.owner = "dashboard" THEN errorToasts ELSE errorToasts + 1
    /\ input' = "none"
    /\ UNCHANGED <<page, pathname, isPageLoading, timers, backendVars, inflight, issued,
                   memberVars, trainerVars, paymentVars, scheduleVars, dashboardVars,
                   viewVars, modalVars, hist>>

\* request r fails after the load c of a page left has rejected: nobody
\* awaits it
Left_load_dropped(c, r) ==
    /\ BagIn(c, leftLoads) /\ r \in c.reqs
    /\ ~c.awaited
    /\ r.status \in {"sent", "fail"}
    /\ leftLoads' = LeftLoadsWith(c, [c EXCEPT !.reqs = @ \ {r}])
    /\ input' = "none"
    /\ UNCHANGED <<page, pathname, isPageLoading, timers, backendVars, inflight, issued,
                   memberVars, trainerVars, paymentVars, scheduleVars, dashboardVars,
                   viewVars, modalVars, notice, errorToasts, hist>>

\* the requests of the loads of pages left
LeftRequests ==
    UNION {{<<c, r>> : r \in c.reqs} : c \in BagToSet(leftLoads)}

\* a request may fail while no error toast has been shown and no failure is
\* on its way
MayFail ==
    /\ errorToasts < MaxFailures
    /\ \A r \in inflight : r.status # "fail"
    /\ \A cr \in LeftRequests : cr[2].status # "fail"

\* the logged-in user lands on the Dashboard and moves about by the links
NextNavigation ==
    \/ \E to \in LinksShown : App_navigate(to)
    \/ \E t \in timers : App_timeout(t)
    \/ MembersFetchSettles
    \/ TrainersFetchSettles
    \/ PaymentsFetchSettles
    \/ ScheduleFetchSettles
    \/ DashboardFetchSettles
    \/ \E r \in inflight : BackendHandle(r) \/ (MayFail /\ BackendReject(r))
    \/ \E cr \in LeftRequests : Left_load_answered(cr[1], cr[2])
    \/ \E cr \in LeftRequests :
          /\ cr[2].status = "fail" \/ MayFail
          /\ Left_load_rejected(cr[1], cr[2]) \/ Left_load_dropped(cr[1], cr[2])

SpecNavigation == InitDashboard /\ [][NextNavigation]_vars

\* a timeout that was started and not cleared fires
SpecNavigationLive ==
    SpecNavigation /\ WF_vars(\E t \in timers : App_timeout(t))

-----------------------------------------------------------------------------
(* Claims *)

\* sub is the subsequence of seq at the positions idx, in the order of seq
IsSubSeqAt(sub, seq, idx) ==
    /\ Len(sub) = Cardinality(idx)
    /\ \E f \in [DOMAIN sub -> idx] :
          /\ \A j, k \in DOMAIN sub : j < k => f[j] < f[k]
          /\ \A k \in DOMAIN sub : sub[k] = seq[f[k]]

\* a member is to be displayed under the selected status and the search term
MemberShown(m) ==
    /\ statusFilter = All \/ m.membershipStatus = statusFilter
    /\ searchTerm = <<>> \/ MemberMatches(m, ToLowerCase(searchTerm))

\* C1: on the Members page, filteredMembers is exactly the members with the
\* selected status (all of them under 'All') that pass the search (all of them
\* when the term is empty), in the order of the members list.
C1_FilteredMembersExact ==
    page = "members" =>
        IsSubSeqAt(filteredMembers, members,
                   {i \in DOMAIN members : MemberShown(members[i])})

\* C1 witness: after a create, a status and a search term are selected and
\* keep some members and drop others
C1_Witness ==
    /\ page = "members"
    /\ issued > 0 /\ inflight = {}
    /\ Len(members) = 3
    /\ statusFilter # All /\ searchTerm # <<>>
    /\ Len(filteredMembers) = 1
    /\ \E i \in DOMAIN members :
          members[i].membershipStatus # statusFilter /\
          MemberMatches(members[i], ToLowerCase(searchTerm))

\* C2: every member in whose name, email or phone the search term occurs,
\* letter case ignored, passes the Members search.
C2_SearchIgnoresCase ==
    \A i \in DOMAIN members :
        (\/ Includes(ToLowerCase(members[i].name), ToLowerCase(searchTerm))
         \/ Includes(ToLowerCase(members[i].email), ToLowerCase(searchTerm))
         \/ Includes(ToLowerCase(members[i].phone), ToLowerCase(searchTerm)))
        => members[i] \in Range(filteredMembers)

\* how often x occurs in seq
Count(seq, x) == Cardinality({i \in DOMAIN seq : seq[i] = x})

\* a payment is to be displayed under the selected status and the search term
PaymentShown(p) ==
    /\ statusFilter = All \/ p.status = statusFilter
    /\ \/ searchTerm = <<>>
       \/ \E i \in DOMAIN members :
             /\ members[i].id = p.memberId
             /\ \A j \in 1..(i - 1) : members[j].id # p.memberId
             /\ \/ Includes(ToLowerCase(members[i].name), ToLowerCase(searchTerm))
                \/ Includes(ToLowerCase(members[i].email), ToLowerCase(searchTerm))
       \/ Includes(NumToString(p.amount), ToLowerCase(searchTerm))
       \/ Includes(ToLowerCase(p.method), ToLowerCase(searchTerm))

\* C3: on the Payments page the displayed rows are, as a multiset, exactly the
\* loaded payments with the selected status that pass the search; sorting
\* neither drops nor duplicates a row.
C3_FilteredPaymentsExact ==
    page = "payments" =>
        \A p \in Range(payments) \cup Range(filteredPayments) :
            Count(filteredPayments, p) =
                IF PaymentShown(p) THEN Count(payments, p) ELSE 0

\* C3 witness: after the load, a status and a search term are selected, a
\* header was clicked, and the rows kept include a payment of an unknown member
C3_Witness ==
    /\ page = "payments" /\ ~isLoading
    /\ statusFilter # All /\ searchTerm # <<>>
    /\ input \in SortKeys
    /\ Len(filteredPayments) = 2 /\ Len(payments) = 3
    /\ \E i \in DOMAIN filteredPayments :
          FindMember(members, filteredPayments[i].memberId) = <<>>

\* C4: the displayed rows are ordered by the selected sort field, ascending
\* under 'asc' and descending under 'desc', equal values in any order.
C4_RowsSorted ==
    page = "payments" =>
        \A i \in 1..(Len(filteredPayments) - 1) :
            IF sortConfig.direction = "asc"
            THEN ~ FieldLess(filteredPayments[i + 1], filteredPayments[i], sortConfig.key)
            ELSE ~ FieldLess(filteredPayments[i], filteredPayments[i + 1], sortConfig.key)

\* C4 witness: three rows with two different amounts are displayed in
\* descending order of amount after the header was clicked twice
C4_Witness ==
    /\ page = "payments" /\ ~isLoading
    /\ sortConfig = [key |-> "amount", direction |-> "desc"]
    /\ Len(filteredPayments) = 3
    /\ filteredPayments[1].amount > filteredPayments[3].amount
    /\ statusFilter = All /\ searchTerm # <<>>

\* C5: the sort configuration starts as date/desc; a click on the selected
\* field's header under 'asc' gives 'desc', any other click selects the clicked
\* field with 'asc'; nothing but a header click changes the configuration.
C5_SortToggle ==
    /\ page = "payments" => sortConfig = [key |-> "date", direction |-> "desc"]
    /\ [][page = "payments" =>
            IF input' \in SortKeys
            THEN sortConfig' =
                   [key |-> input',
                    direction |-> IF sortConfig.key = input' /\
                                     sortConfig.direction = "asc"
                                  THEN "desc" ELSE "asc"]
            ELSE sortConfig' = sortConfig]_vars

\* C5 witness: the amount header was clicked while amount/asc was selected,
\* with a search term typed in between
C5_Witness ==
    /\ page = "payments"
    /\ sortConfig = [key |-> "amount", direction |-> "desc"]
    /\ input = "amount"
    /\ searchTerm # <<>>

\* the numbers of the requests in flight
InFlight == {q.n : q \in inflight}

\* C6: when a POST succeeds, the record the backend returned is appended at
\* the end of the list and the records already there keep value and position.
C6_CreateAppends ==
    [][\A r \in inflight :
          (r.kind = "post" /\ r.status = "ok" /\ r.n \notin InFlight') =>
              /\ page = "members" =>
                    /\ Len(members') = Len(members) + 1
                    /\ members'[Len(members')] = r.data[1]
                    /\ \A i \in DOMAIN members : members'[i] = members[i]
              /\ page = "trainers" =>
                    /\ Len(trainers') = Len(trainers) + 1
                    /\ trainers'[Len(trainers')] = r.data[1]
                    /\ \A i \in DOMAIN trainers : trainers'[i] = trainers[i]]_vars

\* C6 witness: a created member, with the id the backend gave it, stands
\* behind the two loaded members
C6_Witness ==
    /\ page = "members"
    /\ notice = "Member added successfully"
    /\ Len(members) = 3
    /\ members[1] = SeedMembers[1] /\ members[2] = SeedMembers[2]
    /\ members[3].id = 3 /\ members[3].name = <<"B","o">>

\* C7: when a PUT succeeds, the records with the id of the submitted form are
\* replaced by the form that was sent, the others stay, the length stays.
C7_UpdateReplaces ==
    [][\A r \in inflight :
          (r.kind = "put" /\ r.status = "ok" /\ r.n \notin InFlight') =>
              /\ page = "members" =>
                    /\ Len(members') = Len(members)
                    /\ \A i \in DOMAIN members :
                          members'[i] = IF members[i].id = r.body.id
                                        THEN r.body ELSE members[i]
              /\ page = "trainers" =>
                    /\ Len(trainers') = Len(trainers)
                    /\ \A i \in DOMAIN trainers :
                          trainers'[i] = IF trainers[i].id = r.body.id
                                         THEN r.body ELSE trainers[i]]_vars

\* C7 witness: member 1 was saved under a new name while member 2 is as loaded,
\* and a second save of member 1, sent with another name, is still in flight
C7_Witness ==
    /\ page = "members"
    /\ notice = "Member updated successfully"
    /\ Len(members) = 2
    /\ members[1] = [SeedMembers[1] EXCEPT !.name = <<"B","o">>]
    /\ members[2] = SeedMembers[2]
    /\ \E r \in inflight : r.kind = "put" /\ r.id = 1 /\ r.body # members[1]

\* C8: when a confirmed DELETE succeeds, exactly the records with the deleted
\* id leave the list and the others keep value and order; when the user
\* declines, no request is sent and the lists stay.
C8_DeleteRemoves ==
    [][/\ \A r \in inflight :
            (r.kind = "delete" /\ r.status = "ok" /\ r.n \notin InFlight') =>
                /\ page = "members" =>
                      IsSubSeqAt(members', members,
                                 {i \in DOMAIN members : members[i].id # r.id})
                /\ page = "trainers" =>
                      IsSubSeqAt(trainers', trainers,
                                 {i \in DOMAIN trainers : trainers[i].id # r.id})
       /\ input' = "no" =>
             UNCHANGED <<inflight, issued, backendVars, members, trainers>>
       /\ input' = "yes" =>
             /\ members' = members /\ trainers' = trainers
             /\ \E r \in inflight' \ inflight : r.kind = "delete" /\ r.status = "sent"
      ]_vars

\* C8 witness: one member was deleted, the other is still listed, and the
\* prompt for deleting that one was declined
C8_Witness ==
    /\ page = "members"
    /\ notice = "Member deleted successfully"
    /\ members = <<SeedMembers[2]>>
    /\ input = "no"
    /\ inflight = {}

\* C9: the members and trainers lists change only in a step in which a
\* request that succeeded settles.
C9_NoOptimisticUpdate ==
    [][(members' # members \/ trainers' # trainers) =>
          \E r \in inflight : r.status = "ok" /\ r.n \notin InFlight']_vars

\* C9 witness: member 1 was opened for editing, renamed in the form, the save
\* failed and the modal was cancelled; the list is as loaded
C9_Witness ==
    /\ page = "members"
    /\ notice = "Failed to update member"
    /\ ~showModal /\ isEditing /\ memberForm = emptyMemberForm
    /\ members = SeedMembers
    /\ inflight = {}

\* C10: whenever nothing is in flight and every request has succeeded, the
\* members list holds exactly the records of the backend's collection.
C10_MirrorsBackend ==
    (page = "members" /\ inflight = {} /\ hist.allOk) =>
        /\ Range(members) = Range(db.members)
        /\ Len(members) = Len(db.members)

\* C10 as amended: the same, provided every answer reached the page before
\* the answers the backend gave after it.
C10_MirrorsBackendInOrder ==
    (page = "members" /\ inflight = {} /\ hist.allOk /\ hist.inOrder) =>
        /\ Range(members) = Range(db.members)
        /\ Len(members) = Len(db.members)

\* C10 witness: a create and an update were in flight together, both
\* succeeded and arrived in the backend's order
C10_Witness ==
    /\ page = "members" /\ inflight = {} /\ hist.allOk /\ hist.inOrder
    /\ issued = 2
    /\ Len(members) = 3
    /\ members[1].name = <<"B","o">>
    /\ members = db.members

\* the texts of the error toasts
ErrorNotices ==
    {"Failed to load members", "Failed to update member", "Failed to add member",
     "Failed to delete member", "Failed to load trainers", "Failed to update trainer",
     "Failed to add trainer", "Failed to delete trainer", "Failed to load payments",
     "Failed to load schedule"}

\* request r fails at the call site awaiting it in this step: it is gone from
\* the requests in flight, and if it is a load request the load was still awaited
FailsAtCallSite(r) ==
    /\ r.status = "fail"
    /\ r.n \notin InFlight'
    /\ r.kind = "get" => isLoading

\* C11: on every page, a request that fails at the call site awaiting it
\* shows one more error toast, with one of the error texts.
C11_FailureSurfaced ==
    [][\A r \in inflight :
          FailsAtCallSite(r) =>
              /\ errorToasts' = errorToasts + 1
              /\ notice' \in ErrorNotices]_vars

\* C11 on the pages other than the Dashboard
C11_FailureSurfacedElsewhere ==
    [][\A r \in inflight :
          (FailsAtCallSite(r) /\ page # "dashboard") =>
              /\ errorToasts' = errorToasts + 1
              /\ notice' \in ErrorNotices]_vars

\* the load requests of the mounted page that leave the requests in flight
\* in this step with a 2xx answer
LoadsResolved == {r \in inflight : r.kind = "get" /\ r.status = "ok" /\ r.n \notin InFlight'}

\* what a step of the Payments or the Schedule page does to the loaded lists
JointLoadStep ==
    page \in {"payments", "schedule"} =>
        /\ \A r \in inflight :
              FailsAtCallSite(r) =>
                  /\ UNCHANGED <<payments, members, classes, trainers>>
                  /\ errorToasts' = errorToasts + 1
                  /\ ~isLoading'
        /\ (payments' # payments \/ members' # members \/
            classes' # classes \/ trainers' # trainers) =>
              /\ Cardinality(LoadsResolved) = 2
              /\ hist.allOk /\ isLoading /\ ~isLoading'

\* C12: on the Payments and Schedule pages, a load request failing while the
\* load is awaited leaves both lists as they were, shows one error toast and
\* clears the loading flag; the lists change only in a step in which both
\* requests resolve; a page shows one error toast if a request of its load
\* failed, none otherwise, and a failed load leaves both lists empty.
C12_JointLoadAllOrNothing ==
    /\ [][JointLoadStep]_vars
    /\ [](page \in {"payments", "schedule"} =>
            /\ errorToasts = IF hist.allOk THEN 0 ELSE 1
            /\ ~hist.allOk =>
                  payments = <<>> /\ members = <<>> /\ classes = <<>> /\ trainers = <<>>)

\* C12 witness: on the Schedule page one request failed and rejected the
\* load, the answer of the other, a success, is still on its way; one error
\* toast is shown and nothing is listed
C12_Witness ==
    /\ page = "schedule"
    /\ ~isLoading
    /\ errorToasts = 1 /\ notice = "Failed to load schedule"
    /\ \E r \in inflight : r.status = "ok" /\ r.data # <<>>
    /\ classes = <<>> /\ trainers = <<>>

\* a create or update request fails at its call site in this step
SaveFails(r) ==
    r.kind \in {"put", "post"} /\ r.status = "fail" /\ r.n \notin InFlight'

\* C13: when a create or an update fails, the modal, the form, the editing
\* mode and the list are left as they are, and the toast says the update
\* failed for an edit and the add failed for a create.
C13_FailedSaveKeepsForm ==
    [][\A r \in inflight :
          SaveFails(r) =>
              /\ UNCHANGED <<showModal, isEditing, memberForm, trainerForm,
                             specialtyInput, certificationInput, members, trainers>>
              /\ page = "members" =>
                    notice' = IF r.kind = "put" THEN "Failed to update member"
                                                ELSE "Failed to add member"
              /\ page = "trainers" =>
                    notice' = IF r.kind = "put" THEN "Failed to update trainer"
                                                ELSE "Failed to add trainer"]_vars

\* C13 witness: a create failed; the modal is open in add mode with the name
\* the user typed, and the list is as loaded
C13_Witness ==
    /\ page = "members"
    /\ notice = "Failed to add member" /\ errorToasts = 1
    /\ showModal /\ ~isEditing
    /\ memberForm.name = <<"B","o">>
    /\ members = SeedMembers
    /\ inflight = {}

\* C14: once the load has succeeded and nothing is in flight, the list holds
\* exactly the backend's records, each once, in whatever order the answers to
\* saves and deletes of different records arrived.
C14_NoLostUpdate ==
    (page = "members" /\ hist.loaded /\ inflight = {}) =>
        /\ Range(members) = Range(db.members)
        /\ Len(members) = Len(db.members)
        /\ \A i, j \in DOMAIN members : members[i].id = members[j].id => i = j

\* C14 as amended: the same for saves and deletes sent after the load has
\* succeeded, provided the backend gave no created record an id that a record
\* had before.
C14_NoLostUpdateFreshIds ==
    (page = "members" /\ hist.loaded /\ inflight = {} /\ hist.fresh
                      /\ hist.loadedFirst) =>
        /\ Range(members) = Range(db.members)
        /\ Len(members) = Len(db.members)
        /\ \A i, j \in DOMAIN members : members[i].id = members[j].id => i = j

\* C14 witness: a delete and a create were in flight together, both
\* succeeded, and their answers arrived in the opposite order
C14_Witness ==
    /\ page = "members" /\ ~isLoading /\ inflight = {}
    /\ issued = 2 /\ hist.allOk /\ ~hist.inOrder /\ hist.fresh /\ hist.loadedFirst
    /\ Len(members) = 2
    /\ members[1] = SeedMembers[2]
    /\ members[2].id = 3

\* the load requests of the mounted page whose promise has not settled
LoadsPending == {r \in inflight : r.kind = "get"}

\* C15: the loading flag is true exactly as long as a load request of the
\* page has not settled.
C15_LoadingWhilePending == isLoading <=> LoadsPending # {}

\* the loading flag changes only from true to false, in a step in which a
\* load request settles, and a load request failing while the load is
\* awaited clears it
LoadingStep ==
    /\ isLoading' # isLoading =>
          /\ isLoading /\ ~isLoading'
          /\ \E r \in LoadsPending : r.status # "sent" /\ r.n \notin InFlight'
    /\ \A r \in LoadsPending : FailsAtCallSite(r) => ~isLoading'

\* C15 as amended: the flag is true at mount, stays true while the load is
\* awaited, and is cleared when the load settles: when the last of its
\* requests has succeeded or, already then, when the first of them fails,
\* the others still pending; nothing else changes it.
C15_LoadingUntilLoadSettles ==
    /\ isLoading = TRUE
    /\ [][LoadingStep]_vars
    /\ [](isLoading => LoadsPending # {})
    /\ []((~isLoading /\ LoadsPending # {}) =>
            (~hist.allOk /\ page \in {"payments", "schedule", "dashboard"}))

\* C15 witness: on the Payments page one request failed and the loading flag
\* is cleared while the other request has not been answered yet
C15_Witness ==
    /\ page = "payments"
    /\ ~isLoading
    /\ notice = "Failed to load payments"
    /\ \E r \in inflight : r.kind = "get" /\ r.status = "sent"

\* the requests sent in this step
Sent == {r \in inflight' : r.status = "sent" /\ r \notin inflight}

\* the collections a page loads when it mounts
LoadedBy(p) ==
    CASE p = "members" -> {"members"}
      [] p = "trainers" -> {"trainers"}
      [] p = "payments" -> {"payments", "members"}
      [] p = "schedule" -> {"classes", "trainers"}
      [] p = "dashboard" -> {"members", "trainers", "classes", "payments"}

\* a step sends a request only when the user submits the form or confirms a
\* delete, and then exactly one, a save or a delete, while no request settles
NoRetryStep ==
    /\ Sent # {} =>
          /\ input' \in {"submit", "yes"}
          /\ InFlight \subseteq InFlight'
    /\ input' \in {"submit", "yes"} =>
          /\ Cardinality(Sent) = 1
          /\ \A r \in Sent : r.kind # "get"
          /\ issued' = issued + 1

\* C16: the mount sends one load request per collection the page loads;
\* afterwards a request is sent only by a form submission or a confirmed
\* delete, one request each, and never in a step in which a request settles;
\* the number of save and delete requests sent is the number of submissions
\* and confirmed deletes.
C16_NoRetry ==
    /\ Cardinality(inflight) = Cardinality(LoadedBy(page))
    /\ \A r \in inflight : r.kind = "get" /\ r.status = "sent"
    /\ {r.coll : r \in inflight} = LoadedBy(page)
    /\ [][NoRetryStep]_vars
    /\ [](Cardinality({r \in inflight : r.kind # "get"}) <= issued)

\* C16 witness: the load of the Members page failed and the user has opened
\* the add modal since; nothing is listed, nothing is in flight and no
\* request was sent after the load
C16_Witness ==
    /\ page = "members"
    /\ ~isLoading /\ errorToasts = 1
    /\ notice = "Failed to load members"
    /\ members = <<>>
    /\ showModal
    /\ inflight = {} /\ issued = 0

\* the positions of the records of list with this id
WithId(list, id) == {k \in DOMAIN list : list[k].id = id}

\* the smallest element of a non-empty set of numbers
Min(S) == CHOOSE x \in S : \A y \in S : x <= y

\* C17: every payment row shows the name and email of the first loaded member
\* with the payment's member id, or 'Unknown Member' and 'Unknown Email' when
\* there is none; every class card shows the name of the first loaded trainer
\* with the class's trainer id, or 'Unknown'; with no filter set, every loaded
\* payment has its row and every loaded class its card, resolved or not.
C17_ReferenceFallback ==
    /\ page = "payments" =>
          /\ \A i \in DOMAIN PaymentRows :
                LET row == PaymentRows[i]
                    at == WithId(members, row.payment.memberId)
                IN  IF at = {}
                    THEN row.memberName = UnknownMember /\ row.memberEmail = UnknownEmail
                    ELSE /\ row.memberName = members[Min(at)].name
                         /\ row.memberEmail = members[Min(at)].email
          /\ (~isLoading /\ statusFilter = All /\ searchTerm = <<>>) =>
                \A p \in Range(payments) :
                    Cardinality({i \in DOMAIN PaymentRows : PaymentRows[i].payment = p})
                        = Count(payments, p)
    /\ page = "schedule" =>
          /\ \A i \in DOMAIN ScheduleCards :
                LET card == ScheduleCards[i]
                    at == WithId(trainers, card.class.trainer)
                IN  card.trainerName =
                        IF at = {} THEN Unknown ELSE trainers[Min(at)].name
          /\ (~isLoading /\ selectedDay = All) =>
                [i \in DOMAIN ScheduleCards |-> ScheduleCards[i].class] = classes

\* C17 witness: with no filter set after a search, the payments table shows
\* three rows, one with a member's name and email and one with the fallbacks
C17_Witness ==
    /\ page = "payments" /\ ~isLoading
    /\ statusFilter = All /\ searchTerm = <<>>
    /\ input \in SortKeys
    /\ Len(PaymentRows) = 3
    /\ \E i \in DOMAIN PaymentRows :
          /\ PaymentRows[i].memberName = UnknownMember
          /\ PaymentRows[i].memberEmail = UnknownEmail
    /\ \E i \in DOMAIN PaymentRows :
          /\ PaymentRows[i].memberName = SeedMembers[1].name
          /\ PaymentRows[i].memberEmail = SeedMembers[1].email

\* a step that changes the search term, the status filter, the sort
\* configuration or the selected day leaves the loaded lists as they are
ViewStep ==
    (searchTerm' # searchTerm \/ statusFilter' # statusFilter \/
     sortConfig' # sortConfig \/ selectedDay' # selectedDay) =>
        UNCHANGED <<payments, members, classes, trainers>>

\* C18: changing the search term, the status filter or the sort never changes
\* the loaded collection: the payments are the backend's payments as loaded,
\* and with status 'All' and an empty search term every payment is displayed,
\* once each, and on the Members page the displayed list is the members list.
C18_FiltersKeepCollection ==
    /\ [][ViewStep]_vars
    /\ []((page = "payments" /\ ~isLoading /\ hist.allOk) => payments = db.payments)
    /\ []((page = "payments" /\ statusFilter = All /\ searchTerm = <<>>) =>
            /\ Len(filteredPayments) = Len(payments)
            /\ \A p \in Range(payments) :
                  Count(filteredPayments, p) = Count(payments, p))
    /\ []((page = "members" /\ statusFilter = All /\ searchTerm = <<>>) =>
            filteredMembers = members)

\* C18 witness: the amount header was clicked; under 'All' and an empty
\* search term the three loaded payments are all displayed, in another
\* order than loaded, and the payments list is still the backend's
C18_Witness ==
    /\ page = "payments" /\ ~isLoading
    /\ statusFilter = All /\ searchTerm = <<>>
    /\ sortConfig.key = "amount"
    /\ payments = db.payments
    /\ Len(filteredPayments) = 3
    /\ filteredPayments # payments

\* a trainer is to be displayed under the search term: the term occurs in
\* the name, the email or a specialty, letter case ignored
TrainerShown(t) ==
    \/ searchTerm = <<>>
    \/ Includes(ToLowerCase(t.name), ToLowerCase(searchTerm))
    \/ Includes(ToLowerCase(t.email), ToLowerCase(searchTerm))
    \/ \E s \in Range(t.specialties) : Includes(ToLowerCase(s), ToLowerCase(searchTerm))

\* C19: on the Trainers page, filteredTrainers is exactly the trainers in
\* whose name, email or some specialty the search term occurs, letter case
\* ignored (all of them when the term is empty), in the order of the list.
C19_FilteredTrainersExact ==
    page = "trainers" =>
        IsSubSeqAt(filteredTrainers, trainers,
                   {i \in DOMAIN trainers : TrainerShown(trainers[i])})

\* C19 witness: after a create, a search term in upper case keeps a trainer
\* that matches by a specialty only and drops another trainer
C19_Witness ==
    /\ page = "trainers"
    /\ notice = "Trainer added successfully" /\ inflight = {}
    /\ Len(trainers) = 3
    /\ searchTerm = <<"Y">>
    /\ Len(filteredTrainers) < 3
    /\ \E i \in DOMAIN filteredTrainers :
          /\ ~Includes(ToLowerCase(filteredTrainers[i].name), <<"y">>)
          /\ ~Includes(ToLowerCase(filteredTrainers[i].email), <<"y">>)
          /\ \E s \in Range(filteredTrainers[i].specialties) : Includes(s, <<"Y">>)

\* the classes displayed by the Schedule page, in the order of their cards
ClassesDisplayed == [i \in DOMAIN ScheduleCards |-> ScheduleCards[i].class]

\* the positions of the loaded classes that pass the day filter
PassDay == {i \in DOMAIN classes :
               selectedDay = All \/ selectedDay \in Range(classes[i].days)}

\* C20: once the Schedule page has loaded, under 'All' every loaded class is
\* displayed, under a day exactly the loaded classes whose days list holds
\* that day, in loaded order; 'No Classes Scheduled' is rendered exactly when
\* loading has finished and no class passes; selecting a day leaves the
\* loaded classes as they are.
C20_DayFilter ==
    /\ [][selectedDay' # selectedDay => classes' = classes]_vars
    /\ [](page = "schedule" =>
            /\ ~isLoading =>
                  /\ selectedDay = All => ClassesDisplayed = classes
                  /\ IsSubSeqAt(ClassesDisplayed, classes, PassDay)
            /\ ScheduleBranch = "No Classes Scheduled" <=> (~isLoading /\ PassDay = {}))

\* C20 witness: three classes are loaded and Wednesday is selected; the one
\* class held on Monday and Wednesday is displayed
C20_Witness ==
    /\ page = "schedule" /\ ~isLoading
    /\ classes = SeedClasses
    /\ selectedDay = Wednesday
    /\ ClassesDisplayed = <<SeedClasses[1]>>
-----------------------------------------------------------------------------
\* the requests whose successful answer reaches the page in this step
SavesResolved == {r \in inflight : r.kind # "get" /\ r.status = "ok" /\ r.n \notin InFlight'}

\* the list of the mounted page
Listed == IF page = "members" THEN members ELSE trainers

\* the form of the mounted page
Form == IF page = "members" THEN memberForm ELSE trainerForm

\* a submit sends one request carrying the form, a confirmed delete one for
\* the id, and a successful answer is mirrored, whatever the list holds
WriteStep ==
    /\ input' = "submit" =>
          \E r \in inflight' \ inflight :
              /\ inflight' = inflight \cup {r}
              /\ r.status = "sent" /\ r.body = Form
              /\ r.kind = IF isEditing THEN "put" ELSE "post"
    /\ input' = "yes" =>
          \E r \in inflight' \ inflight :
              /\ inflight' = inflight \cup {r}
              /\ r.status = "sent" /\ r.kind = "delete"
    /\ \A r \in SavesResolved :
          /\ r.kind = "post" => Listed' = Append(Listed, r.data[1])
          /\ r.kind = "delete" => ~HasId(Listed', r.id)

\* C21: no client-side integrity check guards a write: with the modal open a
\* submit is always accepted, and so is the confirmed delete of every listed
\* record, whether or not the form duplicates a listed record and whether or
\* not a payment or class refers to the id; what is accepted is sent, and
\* mirrored when the backend answers with success
C21_NoIntegrityCheck ==
    /\ [](issued < MaxReq =>
            /\ (page = "members" /\ showModal) => ENABLED Members_handleSubmit
            /\ (page = "trainers" /\ showModal) => ENABLED Trainers_handleSubmit
            /\ \A m \in MemberRows : ENABLED Members_handleDelete(m.id, TRUE)
            /\ \A t \in TrainerRows : ENABLED Trainers_handleDelete(t.id, TRUE))
    /\ [][WriteStep]_vars

\* a member was created with the name of a listed member, and a member a
\* payment refers to was deleted: both are mirrored
C21_Witness ==
    /\ page = "members" /\ ~isLoading /\ inflight = {} /\ hist.allOk
    /\ \E i, j \in DOMAIN members :
          /\ i # j
          /\ members[i].name = members[j].name /\ members[i].name # <<>>
    /\ \E k \in DOMAIN db.payments :
          /\ ~HasId(members, db.payments[k].memberId)
          /\ HasId(SeedMembers, db.payments[k].memberId)

-----------------------------------------------------------------------------
\* the saves submitted from the opening of the modal that is on screen
FromThisOpening == {r \in inflight : r.kind \in {"put", "post"} /\ r.n > hist.openedAt}

\* a step that closes the open modal (and with it empties the form) is the
\* user's close or the success of a save submitted from this opening
ModalStep ==
    (showModal /\ ~showModal') =>
        \/ inflight' = inflight
        \/ \E r \in SavesResolved : r \in FromThisOpening

\* C22: an open modal is closed, and its form reset, only by the user's close
\* or cancel or by the success of a save submitted from that same opening of
\* the modal, never by the late success of a save submitted from an earlier one
C22_ModalClosedByOwnSave == [][ModalStep]_vars

-----------------------------------------------------------------------------
\* an update and a delete of one record were in flight together, both have
\* succeeded, and the later of the two reaches the page in this step: the
\* list then holds no record of that id
OvertakeStep ==
    \A r \in SavesResolved :
        (r.kind = "delete" \/ (r.kind = "put" /\ r.n \in hist.overtaken))
            => ~HasId(Listed', r.id)

\* C23: a deleted record is never resurrected by a late update: when an update
\* and a delete of the same record are in flight together and both succeed,
\* the record is absent from the list once both have completed, whichever
\* answer arrives first
C23_NoResurrection == [][OvertakeStep]_vars

OvertakeFreshStep == hist.fresh' => OvertakeStep

\* C23, amended: the same as long as the backend gives no created record an
\* id that another record had before
C23_NoResurrectionFreshIds == [][OvertakeFreshStep]_vars

\* the update of a member arrived after the delete of that member had been
\* mirrored, both having succeeded, and the list holds no member of that id
C23_Witness ==
    /\ page = "members" /\ hist.allOk /\ hist.fresh /\ ~hist.inOrder
    /\ notice = "Member updated successfully"
    /\ inflight = {} /\ issued = 1
    /\ Len(members) = Len(SeedMembers) - 1
    /\ db.members = members

-----------------------------------------------------------------------------
\* the rows of the mounted page, each with its edit button
Rows == IF page = "members" THEN MemberRows ELSE TrainerRows

\* a step that leaves the modal open keeps the form's id and the mode, unless
\* it opens the modal: for editing on a row, or for adding with the empty form
FormIdStep ==
    /\ showModal' =>
          \/ showModal /\ Form'.id = Form.id /\ isEditing' = isEditing
          \/ isEditing' /\ Form' \in Rows
          \/ ~isEditing' /\ Form' \in {emptyMemberForm, emptyTrainerForm}
    /\ input' = "submit" =>
          \A r \in inflight' \ inflight :
              /\ r.kind = "put" => isEditing /\ r.id = Form.id /\ r.id # NoId
              /\ r.kind = "post" => ~isEditing /\ Form.id = NoId /\ r.body.id = NoId

\* C24: while the modal is open, editing mode is on exactly when the form
\* carries an id, the id of the row opened for editing, and typing never
\* changes that id; so every PUT is addressed to the id of a record opened for
\* editing and every POST is sent from a form without id
C24_EditingIffFormId ==
    /\ [](showModal => (isEditing <=> Form.id # NoId))
    /\ [][FormIdStep]_vars

\* the user opened a row for editing, typed a new name and submitted: the PUT
\* on its way is addressed to the id of that row
C24_Witness ==
    /\ showModal /\ isEditing /\ input = "submit"
    /\ \E r \in inflight :
          /\ r.kind = "put" /\ r.status = "sent" /\ r.id = Form.id
          /\ \E x \in Rows : x.id = r.id /\ x.name # r.body.name

-----------------------------------------------------------------------------
\* C25: every in-app navigation link on screen (the Sidebar items, the
\* Dashboard's "Add New Member" and "View All", the not-found page's "Back to
\* Dashboard") targets a path for which the route table has a page other than
\* the catch-all not-found page
C25_LinksResolve ==
    \A to \in LinksShown : RouteElement(Landing(to)) \in LayoutPages \cup {"login"}

-----------------------------------------------------------------------------
\* a change of pathname sets the flag and leaves exactly one timeout pending,
\* the one just started; the flag is cleared only by a timeout that no later
\* one has superseded, and set only by a change of pathname
TransitionStep ==
    /\ pathname' # pathname =>
          /\ isPageLoading'
          /\ Cardinality(timers') = 1
    /\ (isPageLoading /\ ~isPageLoading') =>
          /\ pathname' = pathname
          /\ \E t \in timers : timers' = timers \ {t} /\ \A u \in timers : u <= t
    /\ (~isPageLoading /\ isPageLoading') => pathname' # pathname

PathnameChanges == pathname' # pathname

\* C27: each change of pathname sets the page-loading flag and starts the
\* timeout that clears it, a further change before it fires cancels it and
\* starts a new one, so no superseded timeout clears the flag; once navigation
\* stops the flag is eventually cleared, and it stays cleared until the next
\* change of pathname
C27_PageTransition ==
    /\ [][TransitionStep]_vars
    /\ ([]<><<PathnameChanges>>_vars) \/ <>[](isPageLoading = FALSE)

\* the user has left the Dashboard for another page whose load is still on
\* its way, and the timeout of that navigation has fired and cleared the flag
C27_Witness ==
    /\ page \in LayoutPages \ {"dashboard"}
    /\ isLoading /\ ~isPageLoading /\ timers = {}

-----------------------------------------------------------------------------
\* the sum of the amounts of the rows on screen
RowsTotal ==
    LET RECURSIVE From(_)
        From(k) == IF k > Len(PaymentRows) THEN 0
                   ELSE PaymentRows[k].payment.amount + From(k + 1)
    IN  From(1)

\* an amount of c cents as the cards write it
Money(c) ==
    <<"$">> \o NumToString(c \div 100) \o <<".">> \o
    <<Digits[((c \div 10) % 10) + 1], Digits[(c % 10) + 1]>>

\* C26: the Payments summary follows the displayed rows: Total Payments is
\* their number, Total Amount the sum of their amounts, the average that sum
\* divided by that number (to the nearest cent), and '$0.00', with no
\* division, when no row is displayed
C26_SummaryFollowsRows ==
    page = "payments" =>
        LET n == Len(PaymentRows)
        IN  /\ SummaryCards.totalPayments = n
            /\ SummaryCards.totalAmount = Money(100 * RowsTotal)
            /\ n = 0 => SummaryCards.avgPayment = Money(0)
            /\ n > 0 =>
                  \E c \in {(100 * RowsTotal) \div n, (100 * RowsTotal) \div n + 1} :
                      /\ SummaryCards.avgPayment = Money(c)
                      /\ 2 * n * c - 200 * RowsTotal \in (1 - n)..n

\* some of the loaded payments are filtered out, and the average of the rows
\* left is not a whole number
C26_Witness ==
    /\ page = "payments" /\ ~isLoading
    /\ Len(PaymentRows) > 0 /\ Len(PaymentRows) < Len(payments)
    /\ RowsTotal % Len(PaymentRows) # 0
    /\ RowsTotal # GetTotalAmount(payments)

-----------------------------------------------------------------------------
\* list without its element at position i (positions counted from 1)
Without(list, i) == SubSeq(list, 1, i - 1) \o SubSeq(list, i + 1, Len(list))

\* a step that changes one list of the open form either appends the trimmed,
\* non-empty input and clears the input, or removes one element and leaves
\* the input alone
ListEdited(list, listAfter, typed, typedAfter) ==
    (showModal /\ showModal' /\ listAfter # list) =>
        \/ /\ Trim(typed) # <<>>
           /\ listAfter = Append(list, Trim(typed))
           /\ typedAfter = <<>>
        \/ /\ typedAfter = typed
           /\ \E i \in DOMAIN list : listAfter = Without(list, i)

ListEditStep ==
    /\ ListEdited(trainerForm.specialties, trainerForm'.specialties,
                  specialtyInput, specialtyInput')
    /\ ListEdited(trainerForm.certifications, trainerForm'.certifications,
                  certificationInput, certificationInput')
    \* an edit changes the form only, and one list of it
    /\ (showModal /\ showModal' /\ trainerForm' # trainerForm) =>
          /\ trainers' = trainers /\ filteredTrainers' = filteredTrainers
          /\ db' = db /\ inflight' = inflight
          /\ \/ trainerForm' = [trainerForm EXCEPT !.specialties = trainerForm'.specialties]
             \/ trainerForm' = [trainerForm EXCEPT !.certifications = trainerForm'.certifications]
    \* the list of trainers changes only by the load or by a successful save,
    \* which brings the lists of the form submitted
    /\ (trainers' # trainers /\ ~isLoading) =>
          \E r \in SavesResolved :
              /\ r.body = trainerForm
              /\ trainers' = IF r.kind = "put" THEN TrainersUpdated(trainers, trainerForm)
                                               ELSE Append(trainers, r.data[1])
              /\ r.kind = "post" =>
                    /\ r.data[1].specialties = trainerForm.specialties
                    /\ r.data[1].certifications = trainerForm.certifications
    \* closing the modal discards the form and both inputs
    /\ (showModal /\ ~showModal') =>
          /\ trainerForm' = emptyTrainerForm
          /\ specialtyInput' = <<>> /\ certificationInput' = <<>>
          /\ inflight' = inflight => trainers' = trainers

\* removing at index i (counted from 0) takes out exactly that element
RemovesAt(list) ==
    /\ \A i \in 0..(Len(list) - 1) : WithoutIndex(list, i) = Without(list, i + 1)
    /\ WithoutIndex(list, Len(list)) = list

\* C28: in the trainer form 'Add' appends the trimmed input as the last
\* specialty (or certification) and clears the input, and appends nothing
\* when the input is empty or only whitespace; removing at index i deletes
\* exactly the element at position i; these edits change only the form, reach
\* the trainers list only when a save succeeds, and are discarded when the
\* modal is closed
C28_FormListEditing ==
    /\ [](RemovesAt(trainerForm.specialties) /\ RemovesAt(trainerForm.certifications))
    /\ [][ListEditStep]_vars

\* trainer 1 was opened, ' y ' was added to both lists, the first specialty
\* was removed, and the save succeeded: the list of trainers shows it
C28_Witness ==
    /\ page = "trainers" /\ ~showModal /\ inflight = {} /\ hist.allOk
    /\ \E i \in DOMAIN trainers :
          /\ trainers[i].id = 1
          /\ trainers[i].specialties = << <<"y">> >>
          /\ trainers[i].certifications = << <<"N">>, <<"y">> >>

-----------------------------------------------------------------------------
(* Schedule cards: times and enrollment bar *)

\* the hour a stored time 'HH:MM' names
HourOf(time) == 10 * (Pos(Digits, time[1]) - 1) + (Pos(Digits, time[2]) - 1)

\* the text `shown` is the 12-hour reading of the stored time
TwelveHour(time, shown) ==
    \E d \in 1..12 :
       /\ d % 12 = HourOf(time) % 12
       /\ shown = NumToString(d) \o <<":", time[4], time[5], " ">>
                    \o (IF HourOf(time) < 12 THEN <<"A", "M">> ELSE <<"P", "M">>)

\* C29: for every 24-hour time 'HH:MM' with hour 0..23 the time shown on a
\* card has suffix AM exactly when the hour is below 12, its hour is the hour
\* modulo 12 with 0 replaced by 12 and so lies in 1..12, and its minutes are
\* unchanged
C29_TimeFormatting ==
    \A i \in DOMAIN ScheduleCards :
       /\ TwelveHour(ScheduleCards[i].class.timeStart, ScheduleCards[i].timeStart)
       /\ TwelveHour(ScheduleCards[i].class.timeEnd, ScheduleCards[i].timeEnd)

\* a class starting at 00:59 is on a card that reads 12:59 AM
C29_Witness ==
    \E i \in DOMAIN ScheduleCards :
       /\ ScheduleCards[i].class.timeStart = <<"0", "0", ":", "5", "9">>
       /\ ScheduleCards[i].timeStart = <<"1", "2", ":", "5", "9", " ", "A", "M">>

\* the card shows the integer p of 0..100 nearest to 100 * enrolled / capacity
\* and the colour of p
ShowsPercentage(card, p) ==
    /\ card.percentage = NumToString(p) \o <<"%">>
    /\ 2 * (100 * card.class.enrolled - p * card.class.capacity) <= card.class.capacity
    /\ 2 * (p * card.class.capacity - 100 * card.class.enrolled) <= card.class.capacity
    /\ card.bar = "error" <=> p > 75
    /\ card.bar = "warning" <=> (p > 50 /\ p <= 75)
    /\ card.bar = "success" <=> p <= 50

\* C30: for every class with 0 <= enrolled <= capacity the percentage shown
\* is an integer between 0 and 100 equal to 100 * enrolled / capacity rounded
\* to the nearest integer, and the bar is 'error' exactly above 75, 'warning'
\* exactly above 50 and at most 75, and 'success' otherwise
C30_EnrollmentBar ==
    \A i \in DOMAIN ScheduleCards :
       (/\ 0 <= ScheduleCards[i].class.enrolled
        /\ ScheduleCards[i].class.enrolled <= ScheduleCards[i].class.capacity)
       => \E p \in 0..100 : ShowsPercentage(ScheduleCards[i], p)

\* the same for the classes that have room for somebody
C30_EnrollmentBarOfRoom ==
    \A i \in DOMAIN ScheduleCards :
       (/\ 0 <= ScheduleCards[i].class.enrolled
        /\ ScheduleCards[i].class.enrolled <= ScheduleCards[i].class.capacity
        /\ ScheduleCards[i].class.capacity > 0)
       => \E p \in 0..100 : ShowsPercentage(ScheduleCards[i], p)

====
